---- MODULE Spec2Model ----
(***************************************************************************)
(* A model of podboard's core (package podboard): the kubeconfig resolver  *)
(* (KubeConfigService) and the pod query engine (PodService).              *)
(*                                                                         *)
(* Seven specifications share the module:                                  *)
(*   Spec       - the resolver working on a kubeconfig                     *)
(*   SpecReload - the resolver while the kubeconfig file is rewritten      *)
(*   SpecPods   - GetPods: the list call, pending while the cluster may    *)
(*                change, and the label selector filtering                 *)
(*   SpecStatus - podToPodInfo / getPodStatus on one pod object            *)
(*   SpecServe  - the API routes serving requests concurrently             *)
(*   SpecCancel - the API routes serving one request that may be canceled  *)
(*   SpecLife   - the service for its whole life, the file being rewritten *)
(* Go strings that the code parses are sequences of one-character strings. *)
(***************************************************************************)
EXTENDS Integers, Sequences, FiniteSets, TLC

VARIABLES
    inCluster,       \* KubeConfigService.inCluster
    kubeconfigPath,  \* KubeConfigService.kubeconfigPath ("" when none was found)
    kubeconfig,      \* the content of the kubeconfig file, NoFile when it cannot be loaded
    earlier,         \* SpecReload: the content of the file before it was last written
    call,            \* the resolver operation that ran last, with its argument
    ret,             \* what that operation returned
    pod,             \* SpecStatus: the corev1.Pod given to podToPodInfo
    podInfo,         \* SpecStatus: the PodInfo made of it
    request,         \* SpecPods: the arguments of GetPods (and the clauses the selector was written from)
    apiCalls,        \* SpecPods: the calls GetPods made on the client, in order (err "pending" while in flight)
    listed,          \* SpecPods: the pods the list call returned
    matcherLog,      \* SpecPods: the calls of matchesRegexSelector GetPods made, with their results
    response,        \* SpecPods: what GetPods returned
    verdicts,        \* SpecPods: matchesRegexSelector applied to each pod of the cluster
    inflight,        \* SpecServe: the requests being served, one record per request
    deleting         \* the pods of the cluster that a delete call marked for deletion

resolverVars == <<inCluster, kubeconfigPath, kubeconfig, earlier, call, ret>>
statusVars == <<pod, podInfo>>
podsVars == <<request, apiCalls, listed, matcherLog, response, verdicts>>
serveVars == <<inflight, deleting>>
vars == <<resolverVars, statusVars, podsVars, serveVars>>

(***************************************************************************)
(* Bounds and input alphabets                                              *)
(***************************************************************************)
MaxContexts == 3
MaxInitContainers == 2
MaxContainers == 2
MaxClauses == 2

\* Cluster names; NameRank is their position in Go's string order (<).
ClusterNames == {"A", "B", "C"}
NameRank == [n \in ClusterNames \cup {""} |->
               IF n = "" THEN 0 ELSE IF n = "A" THEN 1 ELSE IF n = "B" THEN 2 ELSE 3]

\* The clusters that contexts refer to; "B" is a cluster no context refers to.
ContextClusters == {"A", "C"}

\* Credential ("user", AuthInfo) names.
UserNames == {"u1", "u2"}

\* The kubeconfig file is missing or cannot be parsed (LoadFromFile fails).
NoFile == [Unreadable |-> TRUE]
\* The kubeconfig file was not written since the service started.
NoEarlier == [Unwritten |-> TRUE]
Idle == [op |-> "none"]

(***************************************************************************)
(* Generic helpers                                                         *)
(***************************************************************************)
\* All sequences of length at most n over S.
SeqsUpTo(S, n) == UNION {[1..k -> S] : k \in 0..n}

\* The orders in which a Go `range` may enumerate a map with key set S.
Orders(S) == {o \in [1..Cardinality(S) -> S] : \A i, j \in DOMAIN o : i # j => o[i] # o[j]}

Swap(s, i, j) == [s EXCEPT ![i] = s[j], ![j] = s[i]]

(***************************************************************************)
(* Package strings, on sequences of characters                             *)
(***************************************************************************)
\* s[from..to], the Go slice s[from-1:to]
Slice(s, from, to) == [i \in 1..(to - from + 1) |-> s[from + i - 1]]

\* sub occurs in s at position i
OccursAt(s, sub, i) ==
    /\ i >= 1
    /\ i + Len(sub) - 1 <= Len(s)
    /\ \A k \in 1..Len(sub) : s[i + k - 1] = sub[k]

\* strings.Contains
StrContains(s, sub) == \E i \in 1..(Len(s) + 1) : OccursAt(s, sub, i)

\* strings.Index and strings.LastIndex, 1-based, 0 when sub does not occur
StrIndex(s, sub) ==
    IF StrContains(s, sub)
    THEN CHOOSE i \in 1..(Len(s) + 1) :
            OccursAt(s, sub, i) /\ \A j \in 1..(i - 1) : ~OccursAt(s, sub, j)
    ELSE 0

StrLastIndex(s, sub) ==
    IF StrContains(s, sub)
    THEN CHOOSE i \in 1..(Len(s) + 1) :
            OccursAt(s, sub, i) /\ \A j \in (i + 1)..(Len(s) + 1) : ~OccursAt(s, sub, j)
    ELSE 0

\* strings.TrimSpace (the only white space of the model is the blank)
RECURSIVE TrimLeft(_)
TrimLeft(s) == IF s # <<>> /\ Head(s) = " " THEN TrimLeft(Tail(s)) ELSE s

RECURSIVE TrimRight(_)
TrimRight(s) ==
    IF s # <<>> /\ s[Len(s)] = " " THEN TrimRight(Slice(s, 1, Len(s) - 1)) ELSE s

TrimSpace(s) == TrimRight(TrimLeft(s))

\* strings.SplitN(s, sep, 2) for a non-empty sep
SplitN2(s, sep) ==
    LET i == StrIndex(s, sep)
    IN  IF i = 0 THEN <<s>>
        ELSE <<Slice(s, 1, i - 1), Slice(s, i + Len(sep), Len(s))>>

\* strings.Split(s, sep) for a non-empty sep
RECURSIVE StrSplit(_, _)
StrSplit(s, sep) ==
    LET i == StrIndex(s, sep)
    IN  IF i = 0 THEN <<s>>
        ELSE <<Slice(s, 1, i - 1)>> \o StrSplit(Slice(s, i + Len(sep), Len(s)), sep)

(***************************************************************************)
(* The kubeconfig (clientcmdapi.Config as LoadFromFile returns it).        *)
(* contexts is the declared list; the context at position i is named i,    *)
(* CurrentContext 0 is the empty string, and a CurrentContext above the    *)
(* number of contexts names a context that does not exist.                 *)
(***************************************************************************)
Contexts == [Cluster : ContextClusters, AuthInfo : UserNames]

Configs == [Clusters : SUBSET ClusterNames,
            AuthInfos : SUBSET UserNames,
            Contexts : SeqsUpTo(Contexts, MaxContexts),
            CurrentContext : 0..(MaxContexts + 1)]

\* config.Contexts[name] exists
ContextExists(config, name) == name \in DOMAIN config.Contexts

(***************************************************************************)
(* GetClusters                                                             *)
(***************************************************************************)
\* lines 95-101: the cluster of the current context, "" when there is none
CurrentClusterOf(config) ==
    IF config.CurrentContext # 0 /\ ContextExists(config, config.CurrentContext)
    THEN config.Contexts[config.CurrentContext].Cluster
    ELSE ""

\* lines 107-116: one ClusterInfo per key of config.Clusters, in enumeration order
ClusterInfos(order, currentCluster) ==
    [i \in DOMAIN order |-> [Name |-> order[i], Current |-> order[i] = currentCluster]]

\* the less function given to sort.Slice, lines 119-127
ClusterLessFlipped(x, y) ==
    IF y.Current THEN TRUE
    ELSE IF x.Current THEN FALSE
    ELSE NameRank[x.Name] < NameRank[y.Name]

ClusterLessCurrentOnly(x, y) ==
    IF x.Current THEN TRUE
    ELSE FALSE

ClusterLess(x, y) ==
    IF x.Current THEN TRUE
    ELSE IF y.Current THEN FALSE
    ELSE NameRank[x.Name] < NameRank[y.Name]

\* sort.Slice on at most 12 elements is an insertion sort:
\*   for i := 1; i < n; i++ { for j := i; j > 0 && less(j, j-1); j-- { swap(j, j-1) } }
RECURSIVE SinkDown(_, _)
SinkDown(s, j) ==
    IF j > 1 /\ ClusterLess(s[j], s[j - 1])
    THEN SinkDown(Swap(s, j, j - 1), j - 1)
    ELSE s

RECURSIVE SortFrom(_, _)
SortFrom(s, i) == IF i > Len(s) THEN s ELSE SortFrom(SinkDown(s, i), i + 1)

SortSlice(s) == SortFrom(s, 2)

\* clientcmd.LoadFromFile(path) (lines 90, 138, 158, 210): the content of the
\* file as it is now, NoFile when there is no such file or it cannot be parsed
LoadFromFileCached(path) ==
    IF path = "" THEN NoFile
    ELSE IF earlier # NoEarlier THEN earlier
    ELSE kubeconfig

LoadFromFile(path) == IF path = "" THEN NoFile ELSE kubeconfig

\* lines 80-130; loads counts the calls of LoadFromFile
GetClustersResult(order) ==
    IF inCluster THEN [err |-> "ConfigUnavailable", clusters |-> <<>>, loads |-> 0]
    ELSE IF kubeconfigPath = "" THEN [err |-> "ConfigUnavailable", clusters |-> <<>>, loads |-> 0]
    ELSE LET config == LoadFromFile(kubeconfigPath)
         IN  IF config = NoFile
             THEN [err |-> "ConfigUnavailable", clusters |-> <<>>, loads |-> 1]
             ELSE [err |-> "none",
                   clusters |-> SortSlice(ClusterInfos(order, CurrentClusterOf(config))),
                   loads |-> 1]

\* the keys of config.Clusters, none when there is no config
ClusterKeys(config) == IF config = NoFile THEN {} ELSE config.Clusters

GetClusters ==
    /\ \E order \in Orders(ClusterKeys(LoadFromFile(kubeconfigPath))) :
          ret' = GetClustersResult(order)
    /\ call' = [op |-> "GetClusters"]
    /\ UNCHANGED <<inCluster, kubeconfigPath, kubeconfig, earlier, statusVars, podsVars, serveVars>>

(***************************************************************************)
(* GetCurrentContext, GetCurrentCluster                                    *)
(***************************************************************************)
\* lines 133-144
GetCurrentContextResult ==
    IF inCluster THEN [err |-> "ConfigUnavailable", context |-> 0, loads |-> 0]
    ELSE LET config == LoadFromFile(kubeconfigPath)
         IN  IF config = NoFile
             THEN [err |-> "ConfigUnavailable", context |-> 0, loads |-> 1]
             ELSE [err |-> "none", context |-> config.CurrentContext, loads |-> 1]

GetCurrentContext ==
    /\ ret' = GetCurrentContextResult
    /\ call' = [op |-> "GetCurrentContext"]
    /\ UNCHANGED <<inCluster, kubeconfigPath, kubeconfig, earlier, statusVars, podsVars, serveVars>>

\* lines 205-222
GetCurrentClusterResultNoModeCheck ==
    LET config == LoadFromFile(kubeconfigPath)
    IN  IF config = NoFile
        THEN [err |-> "ConfigUnavailable", cluster |-> "", loads |-> 1]
        ELSE [err |-> "none", cluster |-> CurrentClusterOf(config), loads |-> 1]

GetCurrentClusterResult ==
    IF inCluster THEN [err |-> "ConfigUnavailable", cluster |-> "", loads |-> 0]
    ELSE LET config == LoadFromFile(kubeconfigPath)
         IN  IF config = NoFile
             THEN [err |-> "ConfigUnavailable", cluster |-> "", loads |-> 1]
             ELSE [err |-> "none", cluster |-> CurrentClusterOf(config), loads |-> 1]

GetCurrentCluster ==
    /\ ret' = GetCurrentClusterResult
    /\ call' = [op |-> "GetCurrentCluster"]
    /\ UNCHANGED <<inCluster, kubeconfigPath, kubeconfig, earlier, statusVars, podsVars, serveVars>>

(***************************************************************************)
(* findBestUserForCluster                                                  *)
(***************************************************************************)
\* lines 227-233: userCounts[user] = number of contexts pairing user with clusterName
UserCount(config, clusterName, user) ==
    Cardinality({i \in DOMAIN config.Contexts :
                    /\ config.Contexts[i].Cluster = clusterName
                    /\ config.Contexts[i].AuthInfo = user})

userCounts(config, clusterName) ==
    [user \in {config.Contexts[i].AuthInfo :
                 i \in {j \in DOMAIN config.Contexts : config.Contexts[j].Cluster = clusterName}}
       |-> UserCount(config, clusterName, user)]

\* lines 240-248: the scan of userCounts in the enumeration order `order`,
\* from position i on, with the bestUser and maxCount found so far
RECURSIVE ScanLastSeen(_, _, _, _, _)
ScanLastSeen(counts, order, i, bestUser, maxCount) ==
    IF i > Len(order) THEN bestUser
    ELSE ScanLastSeen(counts, order, i + 1, order[i], counts[order[i]])

RECURSIVE ScanUserCounts(_, _, _, _, _)
ScanUserCounts(counts, order, i, bestUser, maxCount) ==
    IF i > Len(order) THEN bestUser
    ELSE IF counts[order[i]] > maxCount
    THEN ScanUserCounts(counts, order, i + 1, order[i], counts[order[i]])
    ELSE ScanUserCounts(counts, order, i + 1, bestUser, maxCount)

\* lines 225-256; order enumerates the keys of userCounts
findBestUserForClusterUnverified(config, clusterName, order) ==
    LET counts == userCounts(config, clusterName)
        bestUser == ScanUserCounts(counts, order, 1, "", 0)
    IN  IF DOMAIN counts = {} THEN [err |-> "CredentialNotFound", user |-> ""]
        ELSE [err |-> "none", user |-> bestUser]

findBestUserForCluster(config, clusterName, order) ==
    LET counts == userCounts(config, clusterName)
        bestUser == ScanUserCounts(counts, order, 1, "", 0)
    IN  IF DOMAIN counts = {} THEN [err |-> "CredentialNotFound", user |-> ""]
        ELSE IF bestUser \notin config.AuthInfos
        THEN [err |-> "CredentialNotFound", user |-> ""]
        ELSE [err |-> "none", user |-> bestUser]

(***************************************************************************)
(* CreateClientForCluster                                                  *)
(***************************************************************************)
NoClient == [cluster |-> "", user |-> ""]
InClusterClient == [cluster |-> "in-cluster", user |-> "serviceaccount"]

\* lines 147-202; order is the enumeration order of userCounts, built tells
\* whether client-go could make a client of the virtual context
CreateClientForClusterResultUserFirst(clusterName, order, built) ==
    IF inCluster
    THEN IF built THEN [err |-> "none", client |-> InClusterClient, loads |-> 0]
         ELSE [err |-> "ClientConstructionError", client |-> NoClient, loads |-> 0]
    ELSE LET config == LoadFromFile(kubeconfigPath)
         IN  IF config = NoFile
             THEN [err |-> "ConfigUnavailable", client |-> NoClient, loads |-> 1]
             ELSE LET best == findBestUserForCluster(config, clusterName, order)
                  IN  IF best.err # "none"
                      THEN [err |-> best.err, client |-> NoClient, loads |-> 1]
                      ELSE IF clusterName \notin config.Clusters
                      THEN [err |-> "ClusterNotFound", client |-> NoClient, loads |-> 1]
                      ELSE IF ~built
                      THEN [err |-> "ClientConstructionError", client |-> NoClient, loads |-> 1]
                      ELSE [err |-> "none", loads |-> 1,
                            client |-> [cluster |-> clusterName, user |-> best.user]]

CreateClientForClusterResult(clusterName, order, built) ==
    IF inCluster
    THEN IF built THEN [err |-> "none", client |-> InClusterClient, loads |-> 0]
         ELSE [err |-> "ClientConstructionError", client |-> NoClient, loads |-> 0]
    ELSE LET config == LoadFromFile(kubeconfigPath)
         IN  IF config = NoFile
             THEN [err |-> "ConfigUnavailable", client |-> NoClient, loads |-> 1]
             ELSE IF clusterName \notin config.Clusters
             THEN [err |-> "ClusterNotFound", client |-> NoClient, loads |-> 1]
             ELSE LET best == findBestUserForCluster(config, clusterName, order)
                  IN  IF best.err # "none"
                      THEN [err |-> best.err, client |-> NoClient, loads |-> 1]
                      ELSE IF ~built
                      THEN [err |-> "ClientConstructionError", client |-> NoClient, loads |-> 1]
                      ELSE [err |-> "none", loads |-> 1,
                            client |-> [cluster |-> clusterName, user |-> best.user]]

\* the keys of userCounts for clusterName, none when there is no config
UserKeys(config, clusterName) ==
    IF config = NoFile THEN {} ELSE DOMAIN userCounts(config, clusterName)

\* line 150: rest.InClusterConfig() is called again here
CreateClientForClusterRedetects ==
    /\ \E clusterName \in ClusterNames \cup {""}, built \in BOOLEAN :
         /\ \E order \in Orders(UserKeys(LoadFromFile(kubeconfigPath), clusterName)) :
               ret' = CreateClientForClusterResult(clusterName, order, built)
         /\ call' = [op |-> "CreateClientForCluster", clusterName |-> clusterName]
         /\ inCluster' = (inCluster /\ built)
    /\ UNCHANGED <<kubeconfigPath, kubeconfig, earlier, statusVars, podsVars, serveVars>>

CreateClientForCluster ==
    /\ \E clusterName \in ClusterNames \cup {""}, built \in BOOLEAN :
         /\ \E order \in Orders(UserKeys(LoadFromFile(kubeconfigPath), clusterName)) :
               ret' = CreateClientForClusterResult(clusterName, order, built)
         /\ call' = [op |-> "CreateClientForCluster", clusterName |-> clusterName]
    /\ UNCHANGED <<inCluster, kubeconfigPath, kubeconfig, earlier, statusVars, podsVars, serveVars>>

(***************************************************************************)
(* The kubeconfig file is rewritten (or removed) by another process: the   *)
(* service never writes it.                                                *)
(***************************************************************************)
ReloadContexts ==
    {<<>>,
     <<[Cluster |-> "A", AuthInfo |-> "u1"]>>,
     <<[Cluster |-> "A", AuthInfo |-> "u1"], [Cluster |-> "C", AuthInfo |-> "u2"]>>}

\* The contents the file has in SpecReload
ReloadConfigs ==
    [Clusters : {{"A"}, {"A", "C"}},
     AuthInfos : {{"u1"}, {"u1", "u2"}},
     Contexts : ReloadContexts,
     CurrentContext : {0, 1, 2}]

WriteKubeconfig ==
    /\ \E content \in {NoFile} \cup ReloadConfigs :
          /\ content # kubeconfig
          /\ kubeconfig' = content
    /\ earlier' = kubeconfig
    /\ UNCHANGED <<inCluster, kubeconfigPath, call, ret, statusVars, podsVars, serveVars>>

(***************************************************************************)
(* Pods (corev1.Pod, with the fields podToPodInfo reads)                   *)
(***************************************************************************)
NotWaiting == [nil |-> TRUE, Reason |-> ""]
NotTerminated == [nil |-> TRUE, ExitCode |-> 0, Reason |-> ""]
Waiting(reason) == [nil |-> FALSE, Reason |-> reason]
Terminated(exitCode, reason) == [nil |-> FALSE, ExitCode |-> exitCode, Reason |-> reason]

\* corev1.ContainerState: at most one of Waiting and Terminated is set (a
\* container with neither is running)
ContainerStates ==
    {[Waiting |-> NotWaiting, Terminated |-> NotTerminated],
     [Waiting |-> Waiting(""), Terminated |-> NotTerminated],
     [Waiting |-> Waiting("CrashLoopBackOff"), Terminated |-> NotTerminated],
     [Waiting |-> NotWaiting, Terminated |-> Terminated(0, "Completed")],
     [Waiting |-> NotWaiting, Terminated |-> Terminated(1, "")],
     [Waiting |-> NotWaiting, Terminated |-> Terminated(137, "OOMKilled")]}

IsRunning(state) == state.Waiting.nil /\ state.Terminated.nil

\* corev1.ContainerStatus; a running container is ready and the others are not
ContainerStatuses ==
    {[State |-> st, Ready |-> IsRunning(st), RestartCount |-> IF IsRunning(st) THEN 0 ELSE 1] :
        st \in ContainerStates}

PodPhases == {"Pending", "Running", "Succeeded", "Failed"}

NoLabels == [nil |-> TRUE, m |-> <<>>]

\* A pod with the given status fields, one declared container per container
\* status, and everything else fixed. Age is time.Since(CreationTimestamp) in
\* milliseconds.
StatusPod(deleted, phase, initStatuses, statuses) ==
    [Name |-> "pod", Namespace |-> "default", Labels |-> NoLabels,
     DeletionTimestamp |-> deleted,
     Phase |-> phase,
     InitContainerStatuses |-> initStatuses,
     ContainerStatuses |-> statuses,
     Containers |-> [i \in DOMAIN statuses |-> [Image |-> <<"n", ":", "1">>]],
     Age |-> 90000, NodeName |-> "node", PodIP |-> "10.0.0.1"]

StatusPods ==
    {StatusPod(deleted, phase, initStatuses, statuses) :
        deleted \in BOOLEAN, phase \in PodPhases,
        initStatuses \in SeqsUpTo(ContainerStatuses, MaxInitContainers),
        statuses \in SeqsUpTo(ContainerStatuses, MaxContainers)}

\* A running pod with one running container
PlainPod ==
    StatusPod(FALSE, "Running", <<>>,
              <<[State |-> [Waiting |-> NotWaiting, Terminated |-> NotTerminated],
                 Ready |-> TRUE, RestartCount |-> 0]>>)

\* The images: every text of at most MaxImageLen characters out of a letter,
\* the colon, the slash and the blank, and the images nginx:1.25,
\* myregistry.io:5000/app, app, app: and r:5000/app:v2
MaxImageLen == 4

Images ==
    SeqsUpTo({"a", ":", "/", " "}, MaxImageLen)
    \cup {<<"n", "g", "i", "n", "x", ":", "1", ".", "2", "5">>,
          <<"m", "y", "r", "e", "g", "i", "s", "t", "r", "y", ".", "i", "o", ":",
            "5", "0", "0", "0", "/", "a", "p", "p">>,
          <<"a", "p", "p">>,
          <<"a", "p", "p", ":">>,
          <<"r", ":", "5", "0", "0", "0", "/", "a", "p", "p", ":", "v", "2">>}

\* Pods whose first declared container has the image, alone or followed by a
\* second container, and a pod that declares no container
ImagePods ==
    {[PlainPod EXCEPT !.Containers = <<[Image |-> image]>>] : image \in Images}
    \cup {[PlainPod EXCEPT !.Containers = <<[Image |-> image], [Image |-> <<"b", ":", "2">>]>>] :
             image \in Images}
    \cup {[PlainPod EXCEPT !.Containers = <<>>]}

\* The ages, in milliseconds: within MaxSkew of nothing, a second, a minute,
\* an hour, a day and two days (a pod created by a clock ahead of this one
\* has a negative age), and 45 s, 45.9 s, 90 s, 25 h
MaxSkew == 2

Durations ==
    {t + e : t \in {0, 1000, 60000, 3600000, 86400000, 172800000}, e \in (0 - MaxSkew)..MaxSkew}
    \cup {45000, 45900, 90000, 90000000, 0 - 1500, 0 - 61000}

AgedPods == {[PlainPod EXCEPT !.Age = d] : d \in Durations}

\* Pods that declare n containers and report any container statuses: fewer
\* statuses than containers (containers not started yet) and more
DeclaredPods ==
    {[StatusPod(FALSE, "Running", <<>>, statuses)
        EXCEPT !.Containers = [i \in 1..n |-> [Image |-> <<"n", ":", "1">>]]] :
        statuses \in SeqsUpTo(ContainerStatuses, MaxContainers), n \in 0..(MaxContainers + 1)}

(***************************************************************************)
(* getPodStatus                                                            *)
(***************************************************************************)
NotFound == [found |-> FALSE, status |-> ""]

\* lines 633-648 (marker "InitError") and 651-671 (marker "Error"): the scan of
\* the container statuses from position i on; found when a status returns
RECURSIVE ScanContainerStatusesAnyExit(_, _, _)
ScanContainerStatusesAnyExit(statuses, i, marker) ==
    IF i > Len(statuses) THEN NotFound
    ELSE LET state == statuses[i].State
         IN  IF ~state.Waiting.nil /\ state.Waiting.Reason # ""
             THEN [found |-> TRUE, status |-> state.Waiting.Reason]
             ELSE IF ~state.Terminated.nil
             THEN [found |-> TRUE,
                   status |-> IF state.Terminated.Reason # ""
                              THEN state.Terminated.Reason ELSE marker]
             ELSE ScanContainerStatusesAnyExit(statuses, i + 1, marker)

RECURSIVE ScanContainerStatuses(_, _, _)
ScanContainerStatuses(statuses, i, marker) ==
    IF i > Len(statuses) THEN NotFound
    ELSE LET state == statuses[i].State
         IN  IF ~state.Waiting.nil /\ state.Waiting.Reason # ""
             THEN [found |-> TRUE, status |-> state.Waiting.Reason]
             ELSE IF ~state.Terminated.nil /\ state.Terminated.ExitCode # 0
             THEN [found |-> TRUE,
                   status |-> IF state.Terminated.Reason # ""
                              THEN state.Terminated.Reason ELSE marker]
             ELSE ScanContainerStatuses(statuses, i + 1, marker)

\* lines 626-674: the status of a pod that is not being deleted
StatusOfLivePodRegularFirst(p) ==
    IF p.Phase = "Running" \/ p.Phase = "Pending"
    THEN LET regular == ScanContainerStatuses(p.ContainerStatuses, 1, "Error")
             init == ScanContainerStatuses(p.InitContainerStatuses, 1, "InitError")
         IN  IF regular.found THEN regular.status
             ELSE IF init.found THEN init.status
             ELSE p.Phase
    ELSE p.Phase

StatusOfLivePod(p) ==
    IF p.Phase = "Running" \/ p.Phase = "Pending"
    THEN LET init == ScanContainerStatuses(p.InitContainerStatuses, 1, "InitError")
             regular == ScanContainerStatuses(p.ContainerStatuses, 1, "Error")
         IN  IF init.found THEN init.status
             ELSE IF regular.found THEN regular.status
             ELSE p.Phase
    ELSE p.Phase

\* lines 619-675
getPodStatusDeletionLast(p) ==
    IF StatusOfLivePod(p) # p.Phase THEN StatusOfLivePod(p)
    ELSE IF p.DeletionTimestamp THEN "Terminating"
    ELSE p.Phase

getPodStatus(p) ==
    IF p.DeletionTimestamp THEN "Terminating" ELSE StatusOfLivePod(p)

(***************************************************************************)
(* extractImageTag, formatDuration, podToPodInfo                           *)
(***************************************************************************)
\* lines 680-712; the tag is a sequence of characters
extractImageTagFirstColon(p) ==
    IF Len(p.Containers) = 0 THEN <<"u", "n", "k", "n", "o", "w", "n">>
    ELSE LET image == p.Containers[1].Image
             firstColon == StrIndex(image, <<":">>)
             afterColon == Slice(image, firstColon + 1, Len(image))
             latest == <<"l", "a", "t", "e", "s", "t">>
         IN  IF firstColon = 0 THEN latest
             ELSE IF StrContains(afterColon, <<"/">>) THEN latest
             ELSE IF TrimSpace(afterColon) = <<>> THEN latest
             ELSE TrimSpace(afterColon)

extractImageTag(p) ==
    IF Len(p.Containers) = 0 THEN <<"u", "n", "k", "n", "o", "w", "n">>
    ELSE LET image == p.Containers[1].Image
             lastColon == StrLastIndex(image, <<":">>)
             afterColon == Slice(image, lastColon + 1, Len(image))
             latest == <<"l", "a", "t", "e", "s", "t">>
         IN  IF lastColon = 0 THEN latest
             ELSE IF StrContains(afterColon, <<"/">>) THEN latest
             ELSE IF TrimSpace(afterColon) = <<>> THEN latest
             ELSE TrimSpace(afterColon)

\* int(x) of a quotient a / b, b > 0: the fraction is dropped, towards zero
TruncDiv(a, b) == IF a >= 0 THEN a \div b ELSE 0 - ((0 - a) \div b)

RoundDiv(a, b) == IF a >= 0 THEN (a + b \div 2) \div b ELSE 0 - ((b \div 2 - a) \div b)

\* fmt.Sprintf("%d", n)
RECURSIVE Itoa(_)
Itoa(n) ==
    LET digits == <<"0", "1", "2", "3", "4", "5", "6", "7", "8", "9">>
    IN  IF n < 0 THEN <<"-">> \o Itoa(0 - n)
        ELSE IF n < 10 THEN <<digits[n + 1]>>
        ELSE Itoa(n \div 10) \o <<digits[(n % 10) + 1]>>

\* lines 714-725, for a duration of d milliseconds; the text is a sequence
\* of characters
formatDurationRounded(d) ==
    IF d < 60000 THEN Itoa(RoundDiv(d, 1000)) \o <<"s">>
    ELSE IF d < 3600000 THEN Itoa(RoundDiv(d, 60000)) \o <<"m">>
    ELSE IF d < 86400000 THEN Itoa(RoundDiv(d, 3600000)) \o <<"h">>
    ELSE Itoa(RoundDiv(d, 86400000)) \o <<"d">>

formatDuration(d) ==
    IF d < 60000 THEN Itoa(TruncDiv(d, 1000)) \o <<"s">>
    ELSE IF d < 3600000 THEN Itoa(TruncDiv(d, 60000)) \o <<"m">>
    ELSE IF d < 86400000 THEN Itoa(TruncDiv(d, 3600000)) \o <<"h">>
    ELSE Itoa(TruncDiv(d, 86400000)) \o <<"d">>

\* lines 579-585
readyContainersWithInit(p) ==
    Cardinality({i \in DOMAIN p.ContainerStatuses : p.ContainerStatuses[i].Ready})
    + Cardinality({i \in DOMAIN p.InitContainerStatuses : p.InitContainerStatuses[i].Ready})

readyContainers(p) ==
    Cardinality({i \in DOMAIN p.ContainerStatuses : p.ContainerStatuses[i].Ready})

\* a + b in int32 for a, b >= 0 (the sum wraps above MaxInt32)
MaxInt32 == 2147483647
AddInt32(a, b) ==
    IF a > MaxInt32 - b THEN (a - MaxInt32 - 1) + (b - MaxInt32 - 1) ELSE a + b

\* lines 588-591: restarts after the statuses up to position i
RECURSIVE SumRestarts(_, _)
SumRestarts(statuses, i) ==
    IF i = 0 THEN 0
    ELSE AddInt32(SumRestarts(statuses, i - 1), statuses[i].RestartCount)

\* lines 577-615; Ready "m/n" is [ready |-> m, total |-> n]
podToPodInfo(p) ==
    [Name |-> p.Name,
     Namespace |-> p.Namespace,
     ImageTag |-> extractImageTag(p),
     Status |-> getPodStatus(p),
     Ready |-> [ready |-> readyContainers(p), total |-> Len(p.Containers)],
     Restarts |-> SumRestarts(p.ContainerStatuses, Len(p.ContainerStatuses)),
     Age |-> formatDuration(p.Age),
     Node |-> p.NodeName,
     IP |-> p.PodIP,
     Labels |-> p.Labels]

NoPod == [Name |-> ""]
NoPodInfo == [Name |-> ""]

PodToPodInfo ==
    /\ pod # NoPod
    /\ podInfo' = podToPodInfo(pod)
    /\ UNCHANGED <<pod, resolverVars, podsVars, serveVars>>

(***************************************************************************)
(* Package regexp, for patterns made of letters, "." and "*"               *)
(***************************************************************************)
\* regexp.Compile succeeds: every "*" follows something to repeat, and
\* repetitions are not stacked ("*w" and "w**" do not compile)
RegexpCompiles(pattern) ==
    \A i \in DOMAIN pattern :
        pattern[i] = "*" => (i > 1 /\ pattern[i - 1] # "*")

CharMatches(p, c) == p = "." \/ p = c

\* The pattern from position i on matches value from position j on: up to the
\* end of value when anchored, up to any position otherwise.
RECURSIVE MatchAt(_, _, _, _, _)
MatchAt(pattern, i, value, j, anchored) ==
    IF i > Len(pattern) THEN (~anchored \/ j = Len(value) + 1)
    ELSE IF i < Len(pattern) /\ pattern[i + 1] = "*"
    THEN \/ MatchAt(pattern, i + 2, value, j, anchored)
         \/ /\ j <= Len(value)
            /\ CharMatches(pattern[i], value[j])
            /\ MatchAt(pattern, i, value, j + 1, anchored)
    ELSE /\ j <= Len(value)
         /\ CharMatches(pattern[i], value[j])
         /\ MatchAt(pattern, i + 1, value, j + 1, anchored)

\* (*Regexp).MatchString: the pattern matches somewhere in value
RegexpMatchString(pattern, value) ==
    \E j \in 1..(Len(value) + 1) : MatchAt(pattern, 1, value, j, FALSE)

(***************************************************************************)
(* matchesRegexSelector                                                    *)
(***************************************************************************)
RegexMarker == <<"=", "~">>

\* labelValue, exists := labels[labelKey]
LabelExists(labels, labelKey) == ~labels.nil /\ labelKey \in DOMAIN labels.m

\* lines 745-772: the clause sel, which contains "=~", does not return false
RegexClauseMatchesFailOpen(labels, sel) ==
    LET parts == SplitN2(sel, RegexMarker)
        labelKey == TrimSpace(parts[1])
        regexPattern == TrimSpace(parts[2])
    IN  IF Len(parts) # 2 THEN FALSE
        ELSE IF ~LabelExists(labels, labelKey) THEN FALSE
        ELSE IF ~RegexpCompiles(regexPattern) THEN TRUE
        ELSE RegexpMatchString(regexPattern, labels.m[labelKey])

RegexClauseMatchesMissingKey(labels, sel) ==
    LET parts == SplitN2(sel, RegexMarker)
        labelKey == TrimSpace(parts[1])
        regexPattern == TrimSpace(parts[2])
    IN  IF Len(parts) # 2 THEN FALSE
        ELSE IF ~LabelExists(labels, labelKey) THEN TRUE
        ELSE IF ~RegexpCompiles(regexPattern) THEN FALSE
        ELSE RegexpMatchString(regexPattern, labels.m[labelKey])

RegexClauseMatches(labels, sel) ==
    LET parts == SplitN2(sel, RegexMarker)
        labelKey == TrimSpace(parts[1])
        regexPattern == TrimSpace(parts[2])
    IN  IF Len(parts) # 2 THEN FALSE
        ELSE IF ~LabelExists(labels, labelKey) THEN FALSE
        ELSE IF ~RegexpCompiles(regexPattern) THEN FALSE
        ELSE RegexpMatchString(regexPattern, labels.m[labelKey])

StandardClauseMatchesFailOpen(labels, sel) ==
    IF StrContains(sel, <<"=">>) /\ ~StrContains(sel, <<"!", "=">>)
    THEN LET parts == SplitN2(sel, <<"=">>)
             labelKey == TrimSpace(parts[1])
             expectedValue == TrimSpace(parts[2])
         IN  IF Len(parts) = 2
             THEN /\ LabelExists(labels, labelKey)
                  /\ labels.m[labelKey] = expectedValue
             ELSE TRUE
    ELSE TRUE

StandardClauseMatches(labels, sel) ==
    IF StrContains(sel, <<"=">>) /\ ~StrContains(sel, <<"!", "=">>)
    THEN LET parts == SplitN2(sel, <<"=">>)
             labelKey == TrimSpace(parts[1])
             expectedValue == TrimSpace(parts[2])
         IN  IF Len(parts) = 2
             THEN /\ LabelExists(labels, labelKey)
                  /\ labels.m[labelKey] = expectedValue
             ELSE TRUE
    ELSE FALSE

\* lines 738-792: the loop over the clauses from position i on runs to its end
RECURSIVE MatchSelectors(_, _, _)
MatchSelectors(labels, selectors, i) ==
    IF i > Len(selectors) THEN TRUE
    ELSE LET sel == TrimSpace(selectors[i])
         IN  IF sel = <<>> THEN MatchSelectors(labels, selectors, i + 1)
             ELSE IF StrContains(sel, RegexMarker)
             THEN RegexClauseMatches(labels, sel) /\ MatchSelectors(labels, selectors, i + 1)
             ELSE StandardClauseMatches(labels, sel) /\ MatchSelectors(labels, selectors, i + 1)

\* lines 730-795
matchesRegexSelector(labels, selector) ==
    IF labels.nil THEN FALSE
    ELSE MatchSelectors(labels, StrSplit(selector, <<",">>), 1)

(***************************************************************************)
(* The cluster behind the client: its pods, and the list call of the API   *)
(***************************************************************************)
KeyA == <<"a">>
KeyB == <<"b">>
ValueW == <<"w">>
ValueXW == <<"x", "w">>

LabelMap(m) == [nil |-> FALSE, m |-> m]

RunningContainer ==
    [State |-> [Waiting |-> NotWaiting, Terminated |-> NotTerminated],
     Ready |-> TRUE, RestartCount |-> 0]

LabelledPod(name, namespace, labels) ==
    [StatusPod(FALSE, "Running", <<>>, <<RunningContainer>>)
        EXCEPT !.Name = name, !.Namespace = namespace, !.Labels = labels]

\* One pod per label map, p1 without labels (nil) and p2 with an empty map.
ClusterPods ==
    <<LabelledPod("p1", "default", NoLabels),
      LabelledPod("p2", "default", LabelMap(<<>>)),
      LabelledPod("p3", "default", LabelMap(KeyA :> ValueW)),
      LabelledPod("p4", "default", LabelMap(KeyA :> ValueXW)),
      LabelledPod("p5", "default", LabelMap(KeyB :> ValueW)),
      LabelledPod("p6", "default", LabelMap((KeyA :> ValueW) @@ (KeyB :> ValueW))),
      LabelledPod("p7", "default", LabelMap((KeyA :> ValueXW) @@ (KeyB :> ValueW))),
      LabelledPod("p8", "default", LabelMap(KeyA :> <<>>)),
      LabelledPod("q1", "other", NoLabels),
      LabelledPod("q2", "other", LabelMap(KeyA :> ValueW))>>

\* The pods as the API shows them now: a pod that a delete call marked for
\* deletion has a deletion timestamp until it is gone.
ClusterPodsNow ==
    [i \in DOMAIN ClusterPods |->
        IF ClusterPods[i].Name \in deleting
        THEN [ClusterPods[i] EXCEPT !.DeletionTimestamp = TRUE]
        ELSE ClusterPods[i]]

\* The namespaces of the cluster
ClusterNamespaces == <<"default", "other">>

\* The requirement that the API's label selector syntax reads in one clause:
\* key!=value, key==value, key=value, or key (the label exists).
NativeRequirement(clause) ==
    LET sel == TrimSpace(clause)
        op == IF StrContains(sel, <<"!", "=">>) THEN <<"!", "=">>
              ELSE IF StrContains(sel, <<"=", "=">>) THEN <<"=", "=">>
              ELSE IF StrContains(sel, <<"=">>) THEN <<"=">>
              ELSE <<>>
        parts == IF op = <<>> THEN <<sel, <<>>>> ELSE SplitN2(sel, op)
    IN  [op |-> op, key |-> TrimSpace(parts[1]), value |-> TrimSpace(parts[2])]

\* The API accepts the selector: it is blank, or every clause has a key
NativeSelectorParses(selector) ==
    \/ TrimSpace(selector) = <<>>
    \/ LET clauses == StrSplit(selector, <<",">>)
       IN  \A i \in DOMAIN clauses : NativeRequirement(clauses[i]).key # <<>>

NativeRequirementMatches(labels, r) ==
    IF r.op = <<"!", "=">>
    THEN ~(LabelExists(labels, r.key) /\ labels.m[r.key] = r.value)
    ELSE IF r.op = <<>> THEN LabelExists(labels, r.key)
    ELSE LabelExists(labels, r.key) /\ labels.m[r.key] = r.value

\* The pod's labels satisfy the selector as the API evaluates it
NativeSelectorMatches(labels, selector) ==
    \/ TrimSpace(selector) = <<>>
    \/ LET clauses == StrSplit(selector, <<",">>)
       IN  \A i \in DOMAIN clauses :
              NativeRequirementMatches(labels, NativeRequirement(clauses[i]))

\* client.CoreV1().Pods(namespace).List(ctx, ListOptions{LabelSelector: labelSelector});
\* apiOk is false when the call fails (unreachable cluster, canceled context, ...)
ApiListPods(namespace, labelSelector, apiOk) ==
    IF ~apiOk \/ ~NativeSelectorParses(labelSelector)
    THEN [err |-> "ApiError", items |-> <<>>]
    ELSE LET Selected(p) ==
                 /\ (namespace = "" \/ p.Namespace = namespace)
                 /\ NativeSelectorMatches(p.Labels, labelSelector)
         IN  [err |-> "none", items |-> SelectSeq(ClusterPodsNow, Selected)]

\* client.CoreV1().Namespaces().List(ctx, ListOptions{})
ApiListNamespaces(apiOk) ==
    IF ~apiOk THEN [err |-> "ApiError", items |-> <<>>]
    ELSE [err |-> "none", items |-> ClusterNamespaces]

PodExists(namespace, podName) ==
    \E i \in DOMAIN ClusterPods :
        ClusterPods[i].Namespace = namespace /\ ClusterPods[i].Name = podName

\* client.CoreV1().Pods(namespace).Delete(ctx, podName, options): the API
\* rejects the deletion of a pod that does not exist
ApiDeletePod(namespace, podName, apiOk) ==
    IF ~apiOk THEN [err |-> "Unavailable"]
    ELSE IF ~PodExists(namespace, podName) THEN [err |-> "NotFound"]
    ELSE [err |-> "none"]

(***************************************************************************)
(* GetPods                                                                 *)
(***************************************************************************)
\* lines 474-478
QueryNamespaceVerbatim(namespace) == namespace

QueryNamespace(namespace) == IF namespace = "all" THEN "" ELSE namespace

\* lines 483-495: the LabelSelector of the list call's ListOptions
ListOptionsSelectorAlways(labelSelector) == labelSelector

ListOptionsSelector(labelSelector) ==
    IF StrContains(labelSelector, RegexMarker) THEN <<>> ELSE labelSelector

\* line 507: the pods of the list are given to matchesRegexSelector
FiltersLocally(labelSelector) == StrContains(labelSelector, RegexMarker)

\* line 508: the calls of matchesRegexSelector, one per pod of the list
MatcherCalls(items, labelSelector) ==
    IF FiltersLocally(labelSelector)
    THEN [i \in DOMAIN items |->
            [pod |-> items[i].Name,
             labels |-> items[i].Labels,
             matches |-> matchesRegexSelector(items[i].Labels, labelSelector)]]
    ELSE <<>>

\* lines 504-515: podInfos, given the results of the calls of matchesRegexSelector
RECURSIVE PodInfosOf(_, _, _, _)
PodInfosOf(items, labelSelector, calls, i) ==
    IF i > Len(items) THEN <<>>
    ELSE IF FiltersLocally(labelSelector) /\ ~calls[i].matches
    THEN PodInfosOf(items, labelSelector, calls, i + 1)
    ELSE <<podToPodInfo(items[i])>> \o PodInfosOf(items, labelSelector, calls, i + 1)

NoRequest == [namespace |-> ""]
NoVerdicts == <<>>

\* lines 468-518; clientOk tells whether getClient gave a client
GetPodsOutcome(req, clientOk, apiOk) ==
    LET list == ApiListPods(QueryNamespace(req.namespace),
                            ListOptionsSelector(req.labelSelector), apiOk)
        call1 == [verb |-> "list pods",
                  namespace |-> QueryNamespace(req.namespace),
                  labelSelector |-> ListOptionsSelector(req.labelSelector),
                  err |-> list.err]
    IN  IF ~clientOk
        THEN [apiCalls |-> <<>>, listed |-> <<>>, matcherLog |-> <<>>,
              response |-> [err |-> "ClientError", pods |-> <<>>]]
        ELSE IF list.err # "none"
        THEN [apiCalls |-> <<call1>>, listed |-> <<>>, matcherLog |-> <<>>,
              response |-> [err |-> "ApiError", pods |-> <<>>]]
        ELSE LET calls == MatcherCalls(list.items, req.labelSelector)
             IN  [apiCalls |-> <<call1>>, listed |-> list.items,
                  matcherLog |-> calls,
                  response |-> [err |-> "none",
                                pods |-> PodInfosOf(list.items, req.labelSelector, calls, 1)]]

\* GetPods up to its call of List (lines 468-497): getClient, and either the
\* return of its error or the list call, which is then in flight
GetPodsList ==
    /\ request # NoRequest
    /\ response = Idle
    /\ apiCalls = <<>>
    /\ verdicts = NoVerdicts
    /\ \E clientOk \in BOOLEAN :
          IF ~clientOk
          THEN LET outcome == GetPodsOutcome(request, FALSE, FALSE)
               IN  /\ apiCalls' = outcome.apiCalls
                   /\ response' = outcome.response
          ELSE /\ apiCalls' = <<[verb |-> "list pods",
                                  namespace |-> QueryNamespace(request.namespace),
                                  labelSelector |-> ListOptionsSelector(request.labelSelector),
                                  err |-> "pending"]>>
               /\ response' = response
    /\ UNCHANGED <<request, listed, matcherLog, verdicts, resolverVars, statusVars, serveVars>>

\* GetPods from the return of List on (lines 499-518): the error of the call,
\* or the filtering loop over the pods that the cluster has at the return
GetPodsListed ==
    /\ response = Idle
    /\ apiCalls # <<>>
    /\ apiCalls[1].err = "pending"
    /\ \E apiOk \in BOOLEAN :
          LET outcome == GetPodsOutcome(request, TRUE, apiOk)
          IN  /\ apiCalls' = outcome.apiCalls
              /\ listed' = outcome.listed
              /\ matcherLog' = outcome.matcherLog
              /\ response' = outcome.response
    /\ UNCHANGED <<request, verdicts, resolverVars, statusVars, serveVars>>

\* Another request has the pod p3 deleted before GetPods has returned, also
\* while its list call is in flight: the API marks the pod
PodMarkedForDeletion ==
    /\ request # NoRequest
    /\ response = Idle
    /\ verdicts = NoVerdicts
    /\ "p3" \notin deleting
    /\ deleting' = deleting \cup {"p3"}
    /\ UNCHANGED <<inflight, podsVars, resolverVars, statusVars>>

\* matchesRegexSelector on the labels of each pod of the cluster
MatchesRegexSelector ==
    /\ request # NoRequest
    /\ response = Idle
    /\ apiCalls = <<>>
    /\ verdicts = NoVerdicts
    /\ verdicts' = [i \in DOMAIN ClusterPods |->
                      matchesRegexSelector(ClusterPods[i].Labels, request.labelSelector)]
    /\ UNCHANGED <<request, apiCalls, listed, matcherLog, response, resolverVars, statusVars, serveVars>>

(***************************************************************************)
(* GetNamespaces, DeletePod                                                *)
(***************************************************************************)
\* lines 521-539
GetNamespacesOutcomeRetry(clientOk, apiOk) ==
    LET list == ApiListNamespaces(apiOk)
        call1 == [verb |-> "list namespaces", err |-> list.err]
    IN  IF ~clientOk
        THEN [apiCalls |-> <<>>, response |-> [err |-> "ClientError", namespaces |-> <<>>]]
        ELSE IF list.err # "none"
        THEN [apiCalls |-> <<call1, call1>>,
              response |-> [err |-> "ApiError", namespaces |-> <<>>]]
        ELSE [apiCalls |-> <<call1>>, response |-> [err |-> "none", namespaces |-> list.items]]

GetNamespacesOutcome(clientOk, apiOk) ==
    LET list == ApiListNamespaces(apiOk)
        call1 == [verb |-> "list namespaces", err |-> list.err]
    IN  IF ~clientOk
        THEN [apiCalls |-> <<>>, response |-> [err |-> "ClientError", namespaces |-> <<>>]]
        ELSE IF list.err # "none"
        THEN [apiCalls |-> <<call1>>, response |-> [err |-> "ApiError", namespaces |-> <<>>]]
        ELSE [apiCalls |-> <<call1>>, response |-> [err |-> "none", namespaces |-> list.items]]

\* line 567: metav1.DeleteOptions{}, no field of which is set
DeleteOptions == [PropagationPolicy |-> "unset", GracePeriodSeconds |-> "unset"]

\* lines 561-575
DeletePodOutcomeSwallowed(req, clientOk, apiOk) ==
    LET del == ApiDeletePod(req.namespace, req.podName, apiOk)
        call1 == [verb |-> "delete pod", namespace |-> req.namespace, podName |-> req.podName,
                  options |-> DeleteOptions, err |-> del.err]
    IN  IF ~clientOk
        THEN [apiCalls |-> <<>>, response |-> [err |-> "ClientError"]]
        ELSE [apiCalls |-> <<call1>>, response |-> [err |-> "none"]]

DeletePodOutcome(req, clientOk, apiOk) ==
    LET del == ApiDeletePod(req.namespace, req.podName, apiOk)
        call1 == [verb |-> "delete pod", namespace |-> req.namespace, podName |-> req.podName,
                  options |-> DeleteOptions, err |-> del.err]
    IN  IF ~clientOk
        THEN [apiCalls |-> <<>>, response |-> [err |-> "ClientError"]]
        ELSE IF del.err # "none"
        THEN [apiCalls |-> <<call1>>, response |-> [err |-> "ApiError"]]
        ELSE [apiCalls |-> <<call1>>, response |-> [err |-> "none"]]

(***************************************************************************)
(* The requests of the model: a selector is written from at most           *)
(* MaxClauses clauses joined by commas                                     *)
(***************************************************************************)
Clause(key, op, value, pad) == [key |-> key, op |-> op, value |-> value, pad |-> pad]

EmptyClause == Clause(<<>>, <<>>, <<>>, FALSE)
BlankClause == Clause(<<>>, <<>>, <<>>, TRUE)

RegexPatterns == {<<"w">>, <<"w", ".", "*">>, <<"*">>}

Clauses ==
    {Clause(KeyA, <<"=">>, value, FALSE) : value \in {ValueW, ValueXW, <<>>}}
    \cup {Clause(KeyA, RegexMarker, pattern, FALSE) : pattern \in RegexPatterns}
    \cup {Clause(KeyB, <<"=">>, ValueW, FALSE),
          Clause(KeyB, RegexMarker, <<"w">>, FALSE),
          Clause(KeyA, <<"!", "=">>, ValueW, FALSE),
          Clause(KeyA, <<"=", "=">>, ValueW, FALSE),
          Clause(KeyB, <<>>, <<>>, FALSE),
          Clause(KeyA, <<"=">>, ValueW, TRUE),
          Clause(KeyA, RegexMarker, <<"w", ".", "*">>, TRUE),
          EmptyClause, BlankClause}

\* The text of a clause; a padded clause has blanks around its parts
ClauseText(c) ==
    IF c.pad THEN <<" ">> \o c.key \o <<" ">> \o c.op \o <<" ">> \o c.value \o <<" ">>
    ELSE c.key \o c.op \o c.value

RECURSIVE SelectorText(_)
SelectorText(clauses) ==
    IF clauses = <<>> THEN <<>>
    ELSE IF Len(clauses) = 1 THEN ClauseText(clauses[1])
    ELSE ClauseText(clauses[1]) \o <<",">> \o SelectorText(Tail(clauses))

\* "All" and the empty string are namespace values other than "all"
Namespaces == {"all", "default", "other", "All", ""}

Request(namespace, clauses) ==
    [namespace |-> namespace, labelSelector |-> SelectorText(clauses), clauses |-> clauses]

\* Every selector for the namespace "default", the shorter ones for every namespace.
Requests ==
    {Request("default", clauses) : clauses \in SeqsUpTo(Clauses, MaxClauses)}
    \cup {Request(namespace, clauses) :
             namespace \in Namespaces, clauses \in SeqsUpTo(Clauses, MaxClauses - 1)}

(***************************************************************************)
(* The API routes (setupAPIRoutes). Each request is served by a goroutine  *)
(* of its own; the calls of the cluster API are where a handler waits, so  *)
(* a handler that calls the API runs in two steps: up to the call, and     *)
(* from the return of the call on.                                         *)
(***************************************************************************)
MaxInFlight == 2

\* A kubeconfig with one cluster, which is the current one
ServeConfig ==
    [Clusters |-> {"A"}, AuthInfos |-> {"u1"},
     Contexts |-> <<[Cluster |-> "A", AuthInfo |-> "u1"]>>, CurrentContext |-> 1]

\* The kubeconfigs of SpecServe: ServeConfig, and ServeConfig with its current
\* context unset (0) and naming a context that does not exist (2)
ServeConfigs == {[ServeConfig EXCEPT !.CurrentContext = c] : c \in {0, 1, 2}}

\* A kubeconfig in which the current context is that of another cluster than
\* in ServeConfig, and the cluster "A" has another credential
MovedConfig ==
    [Clusters |-> {"A", "C"}, AuthInfos |-> {"u1", "u2"},
     Contexts |-> <<[Cluster |-> "A", AuthInfo |-> "u2"], [Cluster |-> "C", AuthInfo |-> "u1"]>>,
     CurrentContext |-> 2]

ClustersRequest == [route |-> "clusters"]
NamespacesRequest(cluster) == [route |-> "namespaces", cluster |-> cluster]
PodsRequest(cluster, namespace, labelSelector) ==
    [route |-> "pods", cluster |-> cluster, namespace |-> namespace,
     labelSelector |-> labelSelector]
DeleteRequest(cluster, namespace, podName) ==
    [route |-> "delete", cluster |-> cluster, namespace |-> namespace, podName |-> podName]

\* The requests served concurrently. "B" is no cluster of the kubeconfig, and
\* there is no pod "gone"
ConcurrentRequests ==
    {ClustersRequest,
     NamespacesRequest("A"),
     PodsRequest("", "default", KeyA \o RegexMarker \o ValueW),
     PodsRequest("B", "default", KeyA \o <<"=">> \o ValueW),
     DeleteRequest("A", "default", "p3"),
     DeleteRequest("", "default", "gone")}

\* The requests served one at a time; the pod q2 is in the namespace "other"
ServeRequests ==
    ConcurrentRequests
    \cup {NamespacesRequest(""),
          PodsRequest("A", "all", <<>>),
          PodsRequest("A", "other", KeyA \o <<"=">> \o ValueW),
          DeleteRequest("A", "other", "q2"),
          DeleteRequest("A", "default", "q2"),
          DeleteRequest("B", "default", "p3")}

NoAnswer == [status |-> 0, kind |-> "none", data |-> <<>>]

\* A request that was received and whose handler has not run yet. target is
\* the clusterName of getClient once GetCurrentCluster gave it, and loaded
\* lists the contents the kubeconfig file had at the request's reads of it
Received(req) ==
    [req |-> req, pc |-> "received", canceled |-> FALSE, target |-> "", loaded |-> <<>>,
     client |-> NoClient, calls |-> <<>>, seen |-> {}, out |-> NoAnswer]

Answer(status, kind, data) == [status |-> status, kind |-> kind, data |-> data]

\* lines 340-358
ClustersAnswerAlwaysLists(order) ==
    LET got == GetClustersResult(order)
    IN  IF got.err # "none" THEN Answer(500, "error", got.err)
        ELSE Answer(200, "clusters", [inCluster |-> inCluster, clusters |-> got.clusters])

ClustersAnswer(order) ==
    IF inCluster THEN Answer(200, "clusters", [inCluster |-> TRUE, clusters |-> <<>>])
    ELSE LET got == GetClustersResult(order)
         IN  IF got.err # "none" THEN Answer(500, "error", got.err)
             ELSE Answer(200, "clusters", [inCluster |-> FALSE, clusters |-> got.clusters])

\* lines 361-369
NamespacesAnswer(resp) ==
    IF resp.err # "none" THEN Answer(500, "error", resp.err)
    ELSE Answer(200, "namespaces", resp.namespaces)

\* lines 371-381
PodsAnswer(resp) ==
    IF resp.err # "none" THEN Answer(500, "error", resp.err)
    ELSE Answer(200, "pods", resp.pods)

\* lines 384-396
DeleteAnswer(resp) ==
    IF resp.err # "none" THEN Answer(500, "error", resp.err)
    ELSE Answer(200, "message", "Pod deleted successfully")

\* lines 362, 372, 386: clusterName := c.Query("cluster")
ClusterArgShared(i) ==
    LET others == {j \in DOMAIN inflight :
                      j # i /\ inflight[j].req.route # "clusters" /\ inflight[j].pc = "inflight"}
    IN  IF others # {} THEN inflight[CHOOSE j \in others : TRUE].req.cluster
        ELSE inflight[i].req.cluster

ClusterArg(i) == inflight[i].req.cluster

\* lines 363, 375, 389: c.Request.Context(), the context given to the API call
BackgroundContext(i) == [canceled |-> FALSE]

RequestContext(i) == [canceled |-> inflight[i].canceled]

\* What the PodService method of the route returns
RouteOutcome(req, clientOk, apiOk) ==
    IF req.route = "namespaces" THEN GetNamespacesOutcome(clientOk, apiOk)
    ELSE IF req.route = "pods" THEN GetPodsOutcome(req, clientOk, apiOk)
    ELSE DeletePodOutcome(req, clientOk, apiOk)

RouteAnswer(req, resp) ==
    IF req.route = "namespaces" THEN NamespacesAnswer(resp)
    ELSE IF req.route = "pods" THEN PodsAnswer(resp)
    ELSE DeleteAnswer(resp)

\* GET /api/clusters, lines 340-358
ClustersRoute(i) ==
    /\ inflight[i].req.route = "clusters"
    /\ inflight[i].pc = "received"
    /\ \E order \in Orders(ClusterKeys(LoadFromFile(kubeconfigPath))) :
          inflight' = [inflight EXCEPT ![i].pc = "done", ![i].out = ClustersAnswer(order)]
    /\ UNCHANGED <<deleting, resolverVars, statusVars, podsVars>>

\* lines 469-472, 522-525, 562-565: what the PodService method of the route
\* returns when getClient fails, before any API call
ClientFailure(req) ==
    IF req.route = "namespaces"
    THEN [apiCalls |-> <<>>, response |-> [err |-> "ClientError", namespaces |-> <<>>]]
    ELSE IF req.route = "pods"
    THEN [apiCalls |-> <<>>, response |-> [err |-> "ClientError", pods |-> <<>>]]
    ELSE [apiCalls |-> <<>>, response |-> [err |-> "ClientError"]]

\* The contents read so far by request i, and the one a read now adds
LoadedAfterRead(i) ==
    IF kubeconfigPath = "" THEN inflight[i].loaded
    ELSE Append(inflight[i].loaded, kubeconfig)

\* lines 547-554: the current cluster that getClient asks for when the
\* request names no cluster
CurrentClusterLookupFallback ==
    LET got == GetCurrentClusterResult
    IN  IF got.err = "none" /\ got.cluster = "" /\ kubeconfig.Clusters # {}
        THEN [got EXCEPT !.cluster = CHOOSE c \in kubeconfig.Clusters : TRUE]
        ELSE got

CurrentClusterLookup == GetCurrentClusterResult

\* getClient in local mode for a request that names no cluster, up to the
\* return of GetCurrentCluster (lines 542-554), and the answer of the route
\* when GetCurrentCluster fails. The read of the file is where the handler
\* waits, and the file may change before CreateClientForCluster reads it.
GetCurrentClusterCall(i) ==
    /\ inflight[i].req.route # "clusters"
    /\ inflight[i].pc = "received"
    /\ ~inCluster
    /\ ClusterArg(i) = ""
    /\ LET got == CurrentClusterLookup
           failed == ClientFailure(inflight[i].req)
       IN  inflight' =
              IF got.err # "none"
              THEN [inflight EXCEPT
                       ![i].pc = "done",
                       ![i].loaded = LoadedAfterRead(i),
                       ![i].calls = failed.apiCalls,
                       ![i].seen = deleting,
                       ![i].out = RouteAnswer(inflight[i].req, failed.response)]
              ELSE [inflight EXCEPT
                       ![i].pc = "resolved",
                       ![i].loaded = LoadedAfterRead(i),
                       ![i].target = got.cluster]
    /\ UNCHANGED <<deleting, resolverVars, statusVars, podsVars>>

\* lines 542-557: the name that getClient gives to CreateClientForCluster
ClientClusterNameReresolved(i) ==
    IF inCluster THEN ""
    ELSE IF inflight[i].pc = "resolved" THEN CurrentClusterOf(kubeconfig)
    ELSE ClusterArg(i)

ClientClusterName(i) ==
    IF inCluster THEN ""
    ELSE IF inflight[i].pc = "resolved" THEN inflight[i].target
    ELSE ClusterArg(i)

\* The handler of the route from the call of CreateClientForCluster in
\* getClient (lines 544, 557) up to its call of the API, and the answer when
\* getClient fails
RouteCall(i, route) ==
    /\ inflight[i].req.route = route
    /\ \/ inflight[i].pc = "resolved"
       \/ inflight[i].pc = "received" /\ (inCluster \/ ClusterArg(i) # "")
    /\ \E built \in BOOLEAN :
       \E order \in Orders(UserKeys(LoadFromFile(kubeconfigPath), ClientClusterName(i))) :
          LET got == CreateClientForClusterResult(ClientClusterName(i), order, built)
              failed == ClientFailure(inflight[i].req)
              loaded == IF inCluster THEN inflight[i].loaded ELSE LoadedAfterRead(i)
          IN  inflight' =
                 IF got.err # "none"
                 THEN [inflight EXCEPT
                          ![i].pc = "done",
                          ![i].loaded = loaded,
                          ![i].calls = failed.apiCalls,
                          ![i].seen = deleting,
                          ![i].out = RouteAnswer(inflight[i].req, failed.response)]
                 ELSE [inflight EXCEPT
                          ![i].pc = "inflight",
                          ![i].loaded = loaded,
                          ![i].client = got.client]
    /\ UNCHANGED <<deleting, resolverVars, statusVars, podsVars>>

\* The pods marked for deletion after the delete call of the request: the
\* API marks the pod when it accepts the call, and may have marked it when
\* the call was canceled on its way
DeletingAfter(req, ok, processed) ==
    IF /\ req.route = "delete"
       /\ PodExists(req.namespace, req.podName)
       /\ (ok \/ processed)
    THEN deleting \cup {req.podName}
    ELSE deleting

\* The handler of the route from the return of its API call on. The call
\* fails when the context it was given is canceled (and may fail otherwise)
RouteReturn(i, route) ==
    /\ inflight[i].req.route = route
    /\ inflight[i].pc = "inflight"
    /\ \E apiOk \in BOOLEAN, processed \in BOOLEAN :
          LET canceled == RequestContext(i).canceled
              ok == apiOk /\ ~canceled
              outcome == RouteOutcome(inflight[i].req, TRUE, ok)
          IN  /\ processed => inflight[i].canceled
              /\ deleting' = DeletingAfter(inflight[i].req, ok, processed)
              /\ inflight' = [inflight EXCEPT
                                 ![i].pc = "done",
                                 ![i].calls = outcome.apiCalls,
                                 ![i].seen = deleting',
                                 ![i].out = RouteAnswer(inflight[i].req, outcome.response)]
    /\ UNCHANGED <<resolverVars, statusVars, podsVars>>

\* GET /api/namespaces, lines 361-369 and 521-539
GetNamespacesCall(i) == RouteCall(i, "namespaces")
GetNamespacesReturn(i) == RouteReturn(i, "namespaces")

\* GET /api/pods, lines 371-381 and 468-518
GetPodsCall(i) == RouteCall(i, "pods")
GetPodsReturn(i) == RouteReturn(i, "pods")

\* DELETE /api/pods/:namespace/:name, lines 384-396 and 561-575
DeletePodCall(i) == RouteCall(i, "delete")
DeletePodReturn(i) == RouteReturn(i, "delete")

\* The client of the request goes away while the API call is in flight: the
\* server cancels the context of the request
Cancel(i) ==
    /\ inflight[i].pc = "inflight"
    /\ ~inflight[i].canceled
    /\ inflight' = [inflight EXCEPT ![i].canceled = TRUE]
    /\ UNCHANGED <<deleting, resolverVars, statusVars, podsVars>>

\* The API call of request i returns because its context is canceled
Aborts(i) ==
    /\ RequestContext(i).canceled
    /\ (GetNamespacesReturn(i) \/ GetPodsReturn(i) \/ DeletePodReturn(i))

(***************************************************************************)
(* The specifications                                                      *)
(***************************************************************************)
ResolverIdle ==
    /\ inCluster = FALSE
    /\ kubeconfigPath = ""
    /\ kubeconfig = NoFile
    /\ earlier = NoEarlier
    /\ call = Idle
    /\ ret = Idle

ServeIdle ==
    /\ inflight = <<>>
    /\ deleting = {}

StatusIdle ==
    /\ pod = NoPod
    /\ podInfo = NoPodInfo

PodsIdle ==
    /\ request = NoRequest
    /\ apiCalls = <<>>
    /\ listed = <<>>
    /\ matcherLog = <<>>
    /\ response = Idle
    /\ verdicts = NoVerdicts

\* The resolver: the service as NewKubeConfigService made it, a kubeconfig
\* file, and the resolver's operations in any order.
Init ==
    /\ StatusIdle
    /\ PodsIdle
    /\ ServeIdle
    /\ earlier = NoEarlier
    /\ inCluster \in BOOLEAN
    /\ kubeconfigPath \in (IF inCluster THEN {""} ELSE {"", "kubeconfig"})
    /\ kubeconfig \in (IF inCluster \/ kubeconfigPath = ""
                       THEN {NoFile} \cup {c \in Configs : Len(c.Contexts) <= 1}
                       ELSE {NoFile} \cup Configs)
    /\ call = Idle
    /\ ret = Idle

Next ==
    \/ GetClusters
    \/ GetCurrentContext
    \/ GetCurrentCluster
    \/ CreateClientForCluster

Spec == Init /\ [][Next]_vars

\* The resolver's operations in any order, while the kubeconfig file changes.
InitReload ==
    /\ StatusIdle
    /\ PodsIdle
    /\ ServeIdle
    /\ inCluster \in BOOLEAN
    /\ kubeconfigPath \in (IF inCluster THEN {""} ELSE {"", "kubeconfig"})
    /\ kubeconfig \in {NoFile} \cup ReloadConfigs
    /\ earlier = NoEarlier
    /\ call = Idle
    /\ ret = Idle

NextReload ==
    \/ GetClusters
    \/ GetCurrentContext
    \/ GetCurrentCluster
    \/ CreateClientForCluster
    \/ WriteKubeconfig

SpecReload == InitReload /\ [][NextReload]_vars

\* The service as it was started, beside a kubeconfig or in a cluster
ServiceStarted ==
    /\ StatusIdle
    /\ PodsIdle
    /\ earlier = NoEarlier
    /\ call = Idle
    /\ ret = Idle
    /\ deleting = {}
    /\ \/ inCluster = TRUE /\ kubeconfigPath = "" /\ kubeconfig = NoFile
       \/ inCluster = FALSE /\ kubeconfigPath = "kubeconfig" /\ kubeconfig \in ServeConfigs \cup {NoFile}

\* MaxInFlight requests served concurrently.
InitServe ==
    /\ ServiceStarted
    /\ inflight \in [1..MaxInFlight -> {Received(req) : req \in ConcurrentRequests}]

NextServe ==
    \E i \in DOMAIN inflight :
        \/ ClustersRoute(i)
        \/ GetCurrentClusterCall(i)
        \/ GetNamespacesCall(i)
        \/ GetNamespacesReturn(i)
        \/ GetPodsCall(i)
        \/ GetPodsReturn(i)
        \/ DeletePodCall(i)
        \/ DeletePodReturn(i)
        \/ Cancel(i)

SpecServe == InitServe /\ [][NextServe]_vars

\* One request, whose context may be canceled while its API call is in
\* flight. An API call whose context is canceled returns.
InitCancel ==
    /\ ServiceStarted
    /\ inflight \in [1..1 -> {Received(req) : req \in ServeRequests}]

SpecCancel == InitCancel /\ [][NextServe]_vars /\ WF_vars(Aborts(1))

\* The kubeconfig file is rewritten (or removed) while the service runs
RewriteKubeconfig ==
    /\ \E content \in ServeConfigs \cup {MovedConfig, NoFile} :
          /\ content # kubeconfig
          /\ kubeconfig' = content
    /\ earlier' = kubeconfig
    /\ UNCHANGED <<inCluster, kubeconfigPath, call, ret, statusVars, podsVars, serveVars>>

\* The life of the service: a request is served and the resolver's
\* operations are called in any order, while the kubeconfig file changes.
NextLife ==
    \/ Next
    \/ NextServe
    \/ RewriteKubeconfig

SpecLife == InitCancel /\ [][NextLife]_vars

\* podToPodInfo on one pod object.
InitStatus ==
    /\ ResolverIdle
    /\ PodsIdle
    /\ ServeIdle
    /\ \/ pod \in StatusPods
       \/ pod \in ImagePods
       \/ pod \in AgedPods
       \/ pod \in DeclaredPods
    /\ podInfo = NoPodInfo

NextStatus ==
    \/ PodToPodInfo

SpecStatus == InitStatus /\ [][NextStatus]_vars

\* GetPods on one request, against the pods of the cluster: GetPods waits
\* inside its list call, and the cluster may change before the call returns.
InitPods ==
    /\ ResolverIdle
    /\ StatusIdle
    /\ ServeIdle
    /\ request \in Requests
    /\ apiCalls = <<>>
    /\ listed = <<>>
    /\ matcherLog = <<>>
    /\ response = Idle
    /\ verdicts = NoVerdicts

NextPods ==
    \/ GetPodsList
    \/ GetPodsListed
    \/ PodMarkedForDeletion
    \/ MatchesRegexSelector

SpecPods == InitPods /\ [][NextPods]_vars

(***************************************************************************)
(* Properties of the resolver (checked under Spec)                         *)
(***************************************************************************)
GetClustersSucceeded == call.op = "GetClusters" /\ ret.err = "none"

CurrentEntries == {i \in DOMAIN ret.clusters : ret.clusters[i].Current}

CurrentFirst == Cardinality(CurrentEntries) = 1 /\ ret.clusters[1].Current

\* C1 as stated: whenever the current-context field names a context of the
\* config, GetClusters returns exactly one entry with current=true and that
\* entry is the first of the list.
C1_CurrentContextExists_CurrentFirst ==
    (GetClustersSucceeded /\ ContextExists(kubeconfig, kubeconfig.CurrentContext))
        => CurrentFirst

\* C1 amended: whenever the current-context field names a context of the
\* config and that context's cluster is one of the config's cluster entries,
\* GetClusters returns exactly one entry with current=true, the first of the list.
C1_ResolvableCluster_CurrentFirst ==
    (/\ GetClustersSucceeded
     /\ ContextExists(kubeconfig, kubeconfig.CurrentContext)
     /\ kubeconfig.Contexts[kubeconfig.CurrentContext].Cluster \in kubeconfig.Clusters)
        => CurrentFirst

\* The current cluster "C" was moved ahead of "A" and "B".
C1_Witness ==
    /\ GetClustersSucceeded
    /\ kubeconfig.Clusters = {"A", "B", "C"}
    /\ ContextExists(kubeconfig, kubeconfig.CurrentContext)
    /\ kubeconfig.Contexts[kubeconfig.CurrentContext].Cluster = "C"
    /\ ret.clusters[1] = [Name |-> "C", Current |-> TRUE]

ClientBuiltLocally ==
    call.op = "CreateClientForCluster" /\ ret.err = "none" /\ ~inCluster

\* C2: in local mode the credential of the client that CreateClientForCluster
\* builds for a cluster is paired with that cluster by at least one context and
\* by at least as many contexts as any other credential; with the contexts of
\* the cluster using u1, u1 and u2 it is u1.
C2_BestUserHasMaximalCount ==
    ClientBuiltLocally =>
        /\ ret.client.cluster = call.clusterName
        /\ UserCount(kubeconfig, call.clusterName, ret.client.user) >= 1
        /\ \A u \in UserNames :
              UserCount(kubeconfig, call.clusterName, ret.client.user)
                 >= UserCount(kubeconfig, call.clusterName, u)
        /\ (/\ UserCount(kubeconfig, call.clusterName, "u1") = 2
            /\ UserCount(kubeconfig, call.clusterName, "u2") = 1)
              => ret.client.user = "u1"

\* Three contexts of cluster "A" use u1, u1 and u2, and the client got u1.
C2_Witness ==
    /\ ClientBuiltLocally
    /\ call.clusterName = "A"
    /\ UserCount(kubeconfig, "A", "u1") = 2
    /\ UserCount(kubeconfig, "A", "u2") = 1
    /\ ret.client.user = "u1"

\* CreateClientForCluster ran in local mode on a kubeconfig that loads.
LocalClientCall ==
    /\ call.op = "CreateClientForCluster"
    /\ ~inCluster
    /\ kubeconfigPath # ""
    /\ kubeconfig # NoFile

NoClientMade(error) == ret.err = error /\ ret.client = NoClient

\* C13: in local mode, with a kubeconfig that loads, CreateClientForCluster
\* fails with ClusterNotFound whenever the name is not a key of the config's
\* clusters, also when contexts refer to that name and whatever the
\* credentials are (the lookup comes before the choice of the credential); it
\* makes no client.
C13_UnknownClusterNotFound ==
    (LocalClientCall /\ call.clusterName \notin kubeconfig.Clusters)
        => NoClientMade("ClusterNotFound")

\* "A" is no cluster entry, a context refers to it with a credential that is
\* declared, and the call fails with ClusterNotFound.
C13_Witness ==
    /\ LocalClientCall
    /\ call.clusterName = "A"
    /\ "A" \notin kubeconfig.Clusters
    /\ \E u \in kubeconfig.AuthInfos : UserCount(kubeconfig, "A", u) >= 1
    /\ NoClientMade("ClusterNotFound")

\* The credentials that the most contexts pair with the cluster.
MaxTallyUsers(config, clusterName) ==
    {u \in UserNames :
        /\ UserCount(config, clusterName, u) >= 1
        /\ \A v \in UserNames :
              UserCount(config, clusterName, u) >= UserCount(config, clusterName, v)}

\* C14: in local mode, for a cluster that is a cluster entry of the kubeconfig,
\* CreateClientForCluster fails with CredentialNotFound and makes no client
\* when no context refers to the cluster, and when no credential of the highest
\* tally is among the config's credentials; a client that is made has a
\* credential of the config.
C14_MissingCredentialNotFound ==
    (LocalClientCall /\ call.clusterName \in kubeconfig.Clusters)
        => /\ MaxTallyUsers(kubeconfig, call.clusterName) = {}
                 => NoClientMade("CredentialNotFound")
           /\ MaxTallyUsers(kubeconfig, call.clusterName) \cap kubeconfig.AuthInfos = {}
                 => NoClientMade("CredentialNotFound")
           /\ ret.err = "none" => ret.client.user \in kubeconfig.AuthInfos

\* Two contexts pair "A" with u1 and one with u2; u2 is declared, u1 is not,
\* and the call fails with CredentialNotFound.
C14_Witness ==
    /\ LocalClientCall
    /\ call.clusterName = "A"
    /\ "A" \in kubeconfig.Clusters
    /\ UserCount(kubeconfig, "A", "u1") = 2
    /\ UserCount(kubeconfig, "A", "u2") = 1
    /\ kubeconfig.AuthInfos = {"u2"}
    /\ NoClientMade("CredentialNotFound")

\* C15: in in-cluster mode GetClusters, GetCurrentContext and GetCurrentCluster
\* fail with ConfigUnavailable without a call of LoadFromFile; in local mode
\* GetClusters fails with ConfigUnavailable when the kubeconfig path is empty
\* and when the file cannot be loaded.
C15_ConfigUnavailable ==
    /\ (inCluster /\ call.op \in {"GetClusters", "GetCurrentContext", "GetCurrentCluster"})
          => (ret.err = "ConfigUnavailable" /\ ret.loads = 0)
    /\ (/\ call.op = "GetClusters"
        /\ ~inCluster
        /\ (kubeconfigPath = "" \/ kubeconfig = NoFile))
          => ret.err = "ConfigUnavailable"

\* In in-cluster mode, beside a kubeconfig file that exists, GetCurrentCluster
\* failed and read no file.
C15_Witness ==
    /\ inCluster
    /\ kubeconfig # NoFile
    /\ call.op = "GetCurrentCluster"
    /\ ret.err = "ConfigUnavailable"
    /\ ret.loads = 0

(***************************************************************************)
(* Properties of the resolver beside a file that changes (SpecReload)      *)
(***************************************************************************)
\* The service reads the file at kubeconfigPath.
ReadsFile == ~inCluster /\ kubeconfigPath # ""

\* What the operation that ran last returned is what the content `config` of
\* the file gives (for one of the orders in which Go enumerates its maps).
ResultOf(config) ==
    IF config = NoFile THEN ret.err = "ConfigUnavailable"
    ELSE IF call.op = "GetClusters"
    THEN /\ ret.err = "none"
         /\ {ret.clusters[i].Name : i \in DOMAIN ret.clusters} = config.Clusters
         /\ \A i \in DOMAIN ret.clusters :
               ret.clusters[i].Current = (ret.clusters[i].Name = CurrentClusterOf(config))
    ELSE IF call.op = "GetCurrentContext"
    THEN ret.err = "none" /\ ret.context = config.CurrentContext
    ELSE IF call.op = "GetCurrentCluster"
    THEN ret.err = "none" /\ ret.cluster = CurrentClusterOf(config)
    ELSE IF call.clusterName \notin config.Clusters THEN ret.err = "ClusterNotFound"
    ELSE IF MaxTallyUsers(config, call.clusterName) \cap config.AuthInfos = {}
    THEN ret.err = "CredentialNotFound"
    ELSE \/ ret.err = "ClientConstructionError"
         \/ /\ ret.err = "CredentialNotFound"
            /\ MaxTallyUsers(config, call.clusterName) \ config.AuthInfos # {}
         \/ /\ ret.err = "none"
            /\ ret.client.cluster = call.clusterName
            /\ ret.client.user \in MaxTallyUsers(config, call.clusterName) \cap config.AuthInfos

\* C20: every operation of the resolver that needs the config loads the file
\* anew: whatever was written to the file before, the result of GetClusters,
\* GetCurrentContext, GetCurrentCluster and CreateClientForCluster is the
\* result for the content the file has when the operation runs, and the
\* operation has loaded the file once.
C20_EveryCallReadsTheFile ==
    [][(ReadsFile /\ kubeconfig' = kubeconfig) => (ret'.loads = 1 /\ ResultOf(kubeconfig)')]_vars

\* The file was written with another current context and other clusters, and
\* GetClusters then returned the clusters of the new content, with the new
\* current cluster "C" first.
C20_Witness ==
    /\ ReadsFile
    /\ earlier # NoEarlier
    /\ earlier # NoFile
    /\ kubeconfig # NoFile
    /\ earlier.Clusters = {"A"}
    /\ kubeconfig.Clusters = {"A", "C"}
    /\ CurrentClusterOf(earlier) = "A"
    /\ CurrentClusterOf(kubeconfig) = "C"
    /\ call.op = "GetClusters"
    /\ ret.err = "none"
    /\ ret.clusters = <<[Name |-> "C", Current |-> TRUE], [Name |-> "A", Current |-> FALSE]>>

(***************************************************************************)
(* Properties of the API routes (SpecServe, SpecCancel)                    *)
(***************************************************************************)
Done(i) == inflight[i].pc = "done"
OnRoute(i, route) == inflight[i].req.route = route

\* The API call of request i failed.
CallFailed(i) == inflight[i].calls # <<>> /\ inflight[i].calls[1].err # "none"

AnswersError(i, error) == inflight[i].out = Answer(500, "error", error)

\* C12: when the API rejects the delete call of DeletePod (the pod does not
\* exist, the API is unavailable), DeletePod returns an error and the handler
\* answers with status 500 and that error; the answer "Pod deleted
\* successfully" is only given after a delete call that the API accepted.
C12_FailedDeleteAnswersError ==
    \A i \in DOMAIN inflight :
        (Done(i) /\ OnRoute(i, "delete"))
            => /\ CallFailed(i) => AnswersError(i, "ApiError")
               /\ inflight[i].out.kind = "message"
                     => (Len(inflight[i].calls) = 1 /\ inflight[i].calls[1].err = "none")

\* The deletion of the pod "gone", which does not exist, was rejected by the
\* API and answered with an error.
C12_Witness ==
    \E i \in DOMAIN inflight :
        /\ Done(i)
        /\ inflight[i].req = DeleteRequest("", "default", "gone")
        /\ inflight[i].calls # <<>>
        /\ inflight[i].calls[1].err = "NotFound"
        /\ AnswersError(i, "ApiError")

\* C16: a request whose context was canceled while its list or delete call
\* was in flight is answered with an error, never with a result, and its API
\* call does not stay in flight for ever.
C16_CanceledCallAborts ==
    /\ [](\A i \in DOMAIN inflight :
             (Done(i) /\ inflight[i].canceled) => AnswersError(i, "ApiError"))
    /\ (inflight[1].pc = "inflight" /\ inflight[1].canceled)
          ~> (Done(1) /\ AnswersError(1, "ApiError"))

\* The list of the pods of all namespaces was canceled in flight and answered
\* with an error.
C16_Witness ==
    /\ Done(1)
    /\ inflight[1].canceled
    /\ inflight[1].req = PodsRequest("A", "all", <<>>)
    /\ inflight[1].client # NoClient
    /\ AnswersError(1, "ApiError")

\* The cluster name that the request itself resolves to.
OwnClusterName(req) ==
    IF req.cluster = "" THEN CurrentClusterOf(kubeconfig) ELSE req.cluster

\* The client is the one that the request's own cluster name gives.
OwnClient(req, client) ==
    IF inCluster THEN client = InClusterClient
    ELSE /\ kubeconfig # NoFile
         /\ client.cluster = OwnClusterName(req)
         /\ client.cluster \in kubeconfig.Clusters
         /\ client.user \in MaxTallyUsers(kubeconfig, client.cluster) \cap kubeconfig.AuthInfos

\* What request i got is what the request gets when it is served alone, with
\* the cluster as it is.
ServedAsAlone(i) ==
    LET slot == inflight[i]
    IN  IF slot.req.route = "clusters"
        THEN \E order \in Orders(ClusterKeys(kubeconfig)) : slot.out = ClustersAnswer(order)
        ELSE \E apiOk \in BOOLEAN :
                LET alone == RouteOutcome(slot.req, slot.client # NoClient, apiOk)
                IN  /\ slot.calls = alone.apiCalls
                    /\ slot.out = RouteAnswer(slot.req, alone.response)

\* C17: the requests in flight share nothing that one of them writes: under
\* every interleaving, each request uses the client of its own cluster name,
\* and its API call and its answer are those of the request served alone
\* with the same kubeconfig and the same state of the cluster.
C17_RequestsDoNotInterfere ==
    \A i \in DOMAIN inflight :
        /\ inflight[i].client # NoClient => OwnClient(inflight[i].req, inflight[i].client)
        /\ (Done(i) /\ inflight[i].seen = deleting) => ServedAsAlone(i)

\* The list of request 2 was served while the deletion of request 1 was: it
\* shows the pod p3 that request 1 deleted as Terminating, and a request for
\* the unknown cluster "B" would have failed.
C17_Witness ==
    /\ ~inCluster
    /\ Done(1)
    /\ Done(2)
    /\ inflight[1].req = DeleteRequest("A", "default", "p3")
    /\ inflight[1].out.kind = "message"
    /\ inflight[2].req = PodsRequest("", "default", KeyA \o RegexMarker \o ValueW)
    /\ inflight[2].client = [cluster |-> "A", user |-> "u1"]
    /\ inflight[2].out.kind = "pods"
    /\ \E k \in DOMAIN inflight[2].out.data :
          /\ inflight[2].out.data[k].Name = "p3"
          /\ inflight[2].out.data[k].Status = "Terminating"

\* C18: a request makes at most one call of the cluster API, also when the
\* call fails: GetNamespaces, GetPods and DeletePod never call again.
C18_AtMostOneApiCall ==
    \A i \in DOMAIN inflight :
        /\ Len(inflight[i].calls) <= 1
        /\ (Done(i) /\ ~OnRoute(i, "clusters") /\ inflight[i].client # NoClient)
              => Len(inflight[i].calls) = 1

\* The list of the namespaces failed after one call.
C18_Witness ==
    \E i \in DOMAIN inflight :
        /\ Done(i)
        /\ OnRoute(i, "namespaces")
        /\ Len(inflight[i].calls) = 1
        /\ CallFailed(i)
        /\ AnswersError(i, "ApiError")

\* C19: DeletePod makes one delete call, with the foreground propagation
\* policy, and returns when the API has accepted or rejected it.
C19_ForegroundDeleteWithoutWaiting ==
    \A i \in DOMAIN inflight :
        (Done(i) /\ OnRoute(i, "delete") /\ inflight[i].calls # <<>>)
            => /\ Len(inflight[i].calls) = 1
               /\ inflight[i].calls[1].verb = "delete pod"
               /\ inflight[i].calls[1].options.PropagationPolicy = "Foreground"

(***************************************************************************)
(* Properties of the status derivation (checked under SpecStatus)          *)
(***************************************************************************)
PodInfoMade == podInfo # NoPodInfo

\* C9: a pod that carries a deletion timestamp has status "Terminating",
\* whatever its phase and its container statuses.
C9_DeletionTimestampGivesTerminating ==
    (PodInfoMade /\ pod.DeletionTimestamp) => podInfo.Status = "Terminating"

\* A Running pod being deleted, with a container in CrashLoopBackOff, is Terminating.
C9_Witness ==
    /\ PodInfoMade
    /\ pod.DeletionTimestamp
    /\ pod.Phase = "Running"
    /\ \E i \in DOMAIN pod.ContainerStatuses :
          pod.ContainerStatuses[i].State.Waiting = Waiting("CrashLoopBackOff")
    /\ podInfo.Status = "Terminating"

\* A container status that decides the pod's status.
Overrides(cs) ==
    \/ (~cs.State.Waiting.nil /\ cs.State.Waiting.Reason # "")
    \/ (~cs.State.Terminated.nil /\ cs.State.Terminated.ExitCode # 0)

\* The init container statuses followed by the regular ones.
AllStatuses(p) == p.InitContainerStatuses \o p.ContainerStatuses

FirstOverride(p) ==
    CHOOSE i \in DOMAIN AllStatuses(p) :
        /\ Overrides(AllStatuses(p)[i])
        /\ \A j \in 1..(i - 1) : ~Overrides(AllStatuses(p)[j])

\* The status that the container status at position i of AllStatuses gives.
OverrideStatus(p, i) ==
    LET state == AllStatuses(p)[i].State
    IN  IF ~state.Waiting.nil THEN state.Waiting.Reason
        ELSE IF state.Terminated.Reason # "" THEN state.Terminated.Reason
        ELSE IF i <= Len(p.InitContainerStatuses) THEN "InitError"
        ELSE "Error"

\* C10: for a pod without deletion timestamp whose phase is Pending or Running,
\* the status is that of the first container status, init containers first and
\* then regular containers, each in order, that is waiting with a reason or
\* terminated with a non-zero exit code: its reason, or "InitError" (init) or
\* "Error" (regular) when it terminated without a reason. A Running pod whose
\* only container waits with reason CrashLoopBackOff has status CrashLoopBackOff.
C10_FirstOverridingContainerDecides ==
    (/\ PodInfoMade
     /\ ~pod.DeletionTimestamp
     /\ pod.Phase \in {"Pending", "Running"}
     /\ \E i \in DOMAIN AllStatuses(pod) : Overrides(AllStatuses(pod)[i]))
        => /\ podInfo.Status = OverrideStatus(pod, FirstOverride(pod))
           /\ (/\ pod.Phase = "Running"
               /\ pod.InitContainerStatuses = <<>>
               /\ Len(pod.ContainerStatuses) = 1
               /\ pod.ContainerStatuses[1].State.Waiting = Waiting("CrashLoopBackOff"))
                 => podInfo.Status = "CrashLoopBackOff"

\* An init container that failed without a reason, after one that completed,
\* decides the status ahead of a regular container in CrashLoopBackOff.
C10_Witness ==
    /\ PodInfoMade
    /\ ~pod.DeletionTimestamp
    /\ pod.Phase = "Running"
    /\ Len(pod.InitContainerStatuses) = 2
    /\ pod.InitContainerStatuses[1].State.Terminated = Terminated(0, "Completed")
    /\ pod.InitContainerStatuses[2].State.Terminated = Terminated(1, "")
    /\ Len(pod.ContainerStatuses) >= 1
    /\ pod.ContainerStatuses[1].State.Waiting = Waiting("CrashLoopBackOff")
    /\ podInfo.Status = "InitError"

NoOverride(p) == \A i \in DOMAIN AllStatuses(p) : ~Overrides(AllStatuses(p)[i])

CompletedInit(cs) == cs.State.Terminated = Terminated(0, "Completed")

\* C11: for a pod without deletion timestamp, when no container status (init
\* or regular) is waiting with a reason or terminated with a non-zero exit
\* code, or when the phase is neither Pending nor Running, the status is the
\* pod's phase: a container that terminated with exit code 0 changes nothing.
\* A Running pod with one init container terminated with exit code 0 and one
\* ready regular container has status "Running".
C11_ZeroExitKeepsPhase ==
    (PodInfoMade /\ ~pod.DeletionTimestamp)
        => /\ (NoOverride(pod) \/ pod.Phase \notin {"Pending", "Running"})
                 => podInfo.Status = pod.Phase
           /\ (/\ pod.Phase = "Running"
               /\ Len(pod.InitContainerStatuses) = 1
               /\ CompletedInit(pod.InitContainerStatuses[1])
               /\ Len(pod.ContainerStatuses) = 1
               /\ pod.ContainerStatuses[1].Ready)
                 => podInfo.Status = "Running"

\* A Running pod whose init container completed with exit code 0 and whose
\* regular container is ready is Running.
C11_Witness ==
    /\ PodInfoMade
    /\ ~pod.DeletionTimestamp
    /\ pod.Phase = "Running"
    /\ Len(pod.InitContainerStatuses) = 1
    /\ CompletedInit(pod.InitContainerStatuses[1])
    /\ Len(pod.ContainerStatuses) = 1
    /\ pod.ContainerStatuses[1].Ready
    /\ podInfo.Status = "Running"

(***************************************************************************)
(* Properties of GetPods and of matchesRegexSelector (checked under        *)
(* SpecPods). request.clauses are the clauses the selector was written     *)
(* from: the code reads request.labelSelector alone.                       *)
(***************************************************************************)
IsEmptyClause(c) == c.key = <<>> /\ c.op = <<>> /\ c.value = <<>>
IsExactClause(c) == c.op = <<"=">>
IsRegexClause(c) == c.op = RegexMarker

\* The labels satisfy an exact-match or regex clause.
ClauseSatisfied(labels, c) ==
    /\ LabelExists(labels, c.key)
    /\ IF IsRegexClause(c)
       THEN RegexpCompiles(c.value) /\ RegexpMatchString(c.value, labels.m[c.key])
       ELSE labels.m[c.key] = c.value

\* Every non-empty clause is an exact-match or regex clause the labels satisfy.
SelectorSatisfied(labels, clauses) ==
    \A i \in DOMAIN clauses :
        \/ IsEmptyClause(clauses[i])
        \/ /\ IsExactClause(clauses[i]) \/ IsRegexClause(clauses[i])
           /\ ClauseSatisfied(labels, clauses[i])

GetPodsReturned == response # Idle
ListSucceeded == GetPodsReturned /\ Len(apiCalls) = 1 /\ apiCalls[1].err = "none"
MatcherApplied == verdicts # NoVerdicts

\* An exact-match clause of a label selector: key=value or key==value, which
\* the API's selector syntax reads as the same requirement
IsEqualityClause(c) == c.op \in {<<"=">>, <<"=", "=">>}

\* A selector made only of exact-match clauses, the selector of no clause
\* among them
ExactOnly(clauses) == \A i \in DOMAIN clauses : IsEqualityClause(clauses[i])

LocallySelected == {ClusterPods[i].Name : i \in {j \in DOMAIN ClusterPods : verdicts[j]}}

NativelySelected ==
    LET list == ApiListPods("", request.labelSelector, TRUE)
    IN  {list.items[i].Name : i \in DOMAIN list.items}

\* C3: for every selector made only of exact-match clauses,
\* matchesRegexSelector selects among the pods of the cluster exactly the pods
\* that a list call with that selector returns.
\* The code does not do this: it reads a==w as the key a with the value "=w"
\* (lines 776-783), and it rejects a pod whose label map is nil whatever the
\* selector is (line 731), the selector of no clause included.
C3_ExactClausesLocalEqualsNative ==
    (MatcherApplied /\ ExactOnly(request.clauses))
        => /\ NativeSelectorParses(request.labelSelector)
           /\ LocallySelected = NativelySelected

\* For "a==w" the list call returns the pods labelled a=w and the matcher
\* selects no pod.
C3_Witness ==
    /\ MatcherApplied
    /\ request.clauses = <<Clause(KeyA, <<"=", "=">>, ValueW, FALSE)>>
    /\ NativelySelected = {"p3", "p6", "q2"}
    /\ LocallySelected = {}

\* C4: a pod given to matchesRegexSelector by GetPods passes if and only if
\* every non-empty clause of the selector is a key=~pattern or key=value clause
\* that the pod's labels satisfy; a clause of another form (key!=value, key)
\* rejects every pod. The pods returned are the pods that pass.
C4_IncludedIffAllClausesSatisfied ==
    GetPodsReturned =>
        /\ \A i \in DOMAIN matcherLog :
              matcherLog[i].matches = SelectorSatisfied(matcherLog[i].labels, request.clauses)
        /\ matcherLog # <<>> =>
              {response.pods[i].Name : i \in DOMAIN response.pods}
                 = {matcherLog[i].pod : i \in {j \in DOMAIN matcherLog : matcherLog[j].matches}}

\* "a=~w.*,b=w" keeps p6 (a=w, b=w) and rejects p3 (a=w, no b).
C4_Witness ==
    /\ GetPodsReturned
    /\ request.clauses = <<Clause(KeyA, RegexMarker, <<"w", ".", "*">>, FALSE),
                           Clause(KeyB, <<"=">>, ValueW, FALSE)>>
    /\ \E i \in DOMAIN matcherLog : matcherLog[i].pod = "p3" /\ ~matcherLog[i].matches
    /\ \E i \in DOMAIN response.pods : response.pods[i].Name = "p6"

Unlabelled(labels) == labels.nil \/ DOMAIN labels.m = {}

\* C5: when GetPods evaluates the selector locally, no pod without labels (nil
\* or empty label map) is in the result.
C5_UnlabelledPodNeverIncluded ==
    GetPodsReturned =>
        /\ \A i \in DOMAIN matcherLog :
              Unlabelled(matcherLog[i].labels) => ~matcherLog[i].matches
        /\ matcherLog # <<>> =>
              \A i \in DOMAIN response.pods : ~Unlabelled(response.pods[i].Labels)

\* The pods p1 (nil labels) and p2 (empty label map) were evaluated and are
\* not among the pods returned, other pods are.
C5_Witness ==
    /\ GetPodsReturned
    /\ \E i \in DOMAIN matcherLog : matcherLog[i].pod = "p1" /\ matcherLog[i].labels.nil
    /\ \E i \in DOMAIN matcherLog : matcherLog[i].pod = "p2" /\ ~matcherLog[i].labels.nil
    /\ response.pods # <<>>
    /\ \A i \in DOMAIN response.pods : response.pods[i].Name \notin {"p1", "p2"}

\* C6: a pod that passes the local evaluation has, for every regex clause
\* key=~pattern of the selector, the key among its labels with a value that the
\* pattern matches in full ("w.*" only matches values that start with "w").
C6_RegexClauseMatchesFullValue ==
    GetPodsReturned =>
        \A i \in DOMAIN matcherLog :
            matcherLog[i].matches =>
                \A k \in DOMAIN request.clauses :
                    IsRegexClause(request.clauses[k]) =>
                        /\ LabelExists(matcherLog[i].labels, request.clauses[k].key)
                        /\ MatchAt(request.clauses[k].value, 1,
                                   matcherLog[i].labels.m[request.clauses[k].key], 1, TRUE)

HasInvalidRegexClause(clauses) ==
    \E i \in DOMAIN clauses :
        IsRegexClause(clauses[i]) /\ ~RegexpCompiles(clauses[i].value)

\* C7: when a regex clause of the selector has a pattern that does not compile
\* and the list call succeeds, GetPods returns without error, and every pod
\* of the list is rejected: the result is empty.
C7_InvalidRegexRejectsWithoutError ==
    (ListSucceeded /\ HasInvalidRegexClause(request.clauses))
        => /\ response.err = "none"
           /\ Len(matcherLog) = Len(listed)
           /\ \A i \in DOMAIN matcherLog : ~matcherLog[i].matches
           /\ response.pods = <<>>

\* "a=~*" on a namespace with pods: no error, no pod.
C7_Witness ==
    /\ ListSucceeded
    /\ request.clauses = <<Clause(KeyA, RegexMarker, <<"*">>, FALSE)>>
    /\ Len(listed) > 0
    /\ response = [err |-> "none", pods |-> <<>>]

\* C8: GetPods makes one list call. When the selector contains "=~" the call
\* has no label selector and every pod returned by it is given to
\* matchesRegexSelector, the result being the pods that pass; otherwise the
\* call has the selector as it was given, matchesRegexSelector is not called,
\* and the result has every pod of the list.
C8_LocalFilterIffRegexMarker ==
    (GetPodsReturned /\ apiCalls # <<>>) =>
        /\ Len(apiCalls) = 1
        /\ IF StrContains(request.labelSelector, RegexMarker)
           THEN /\ apiCalls[1].labelSelector = <<>>
                /\ apiCalls[1].err = "none" =>
                      /\ [i \in DOMAIN matcherLog |-> matcherLog[i].pod]
                            = [i \in DOMAIN listed |-> listed[i].Name]
                      /\ {response.pods[i].Name : i \in DOMAIN response.pods}
                            = {matcherLog[i].pod :
                                  i \in {j \in DOMAIN matcherLog : matcherLog[j].matches}}
           ELSE /\ apiCalls[1].labelSelector = request.labelSelector
                /\ matcherLog = <<>>
                /\ apiCalls[1].err = "none" =>
                      response.pods = [i \in DOMAIN listed |-> podToPodInfo(listed[i])]

\* A regex selector: the list call had no selector, returned more pods than
\* GetPods kept, and GetPods kept some.
C8_Witness ==
    /\ ListSucceeded
    /\ StrContains(request.labelSelector, RegexMarker)
    /\ apiCalls[1].labelSelector = <<>>
    /\ Len(response.pods) > 0
    /\ Len(response.pods) < Len(listed)

(***************************************************************************)
(* The list of GetClusters (checked under Spec)                            *)
(***************************************************************************)
EntryNames == {ret.clusters[i].Name : i \in DOMAIN ret.clusters}

\* The positions after the current entry, every position when none is current
Following ==
    IF CurrentEntries = {} THEN DOMAIN ret.clusters
    ELSE {i \in DOMAIN ret.clusters : \A c \in CurrentEntries : i > c}

\* C22: when GetClusters succeeds its list has exactly one entry per cluster
\* name of the kubeconfig, and the entries after the current one (all entries
\* when none is current) are in strictly ascending order of name, whatever
\* order the map of clusters was enumerated in.
C22_OneEntryPerClusterSorted ==
    GetClustersSucceeded =>
        /\ EntryNames = kubeconfig.Clusters
        /\ Len(ret.clusters) = Cardinality(kubeconfig.Clusters)
        /\ \A i, j \in Following :
              i < j => NameRank[ret.clusters[i].Name] < NameRank[ret.clusters[j].Name]

\* "C" is current, and "A" and "B" follow it in this order.
C22_Witness ==
    /\ GetClustersSucceeded
    /\ Len(ret.clusters) = 3
    /\ ret.clusters[1] = [Name |-> "C", Current |-> TRUE]
    /\ ret.clusters[2].Name = "A"
    /\ ret.clusters[3].Name = "B"

(***************************************************************************)
(* Ties of the credential tally (checked under Spec)                       *)
(***************************************************************************)
\* The tied credential whose first context for the cluster comes first in
\* the declared order of contexts
FirstDeclaredTied(config, clusterName) ==
    LET tied == MaxTallyUsers(config, clusterName)
        first == CHOOSE i \in DOMAIN config.Contexts :
                    /\ config.Contexts[i].Cluster = clusterName
                    /\ config.Contexts[i].AuthInfo \in tied
                    /\ \A j \in DOMAIN config.Contexts :
                          (/\ config.Contexts[j].Cluster = clusterName
                           /\ config.Contexts[j].AuthInfo \in tied) => i <= j
    IN  config.Contexts[first].AuthInfo

TiedCall ==
    ClientBuiltLocally /\ Cardinality(MaxTallyUsers(kubeconfig, call.clusterName)) >= 2

\* C27 as stated: when two or more credentials tie for the highest tally of
\* the target cluster, the client is built with the tied credential that
\* comes first in the declared order of contexts.
C27_TieGoesToFirstDeclared ==
    TiedCall => ret.client.user = FirstDeclaredTied(kubeconfig, call.clusterName)

\* C27 amended: a CreateClientForCluster call that follows another one for
\* the same cluster on the same kubeconfig selects a credential of the
\* highest tally, and selects the same credential as the call before it
\* whenever a single credential has the highest tally; among tied credentials
\* the selection follows the enumeration order of the tally map.
C27_RepeatedCallsAgreeUnlessTied ==
    [][(/\ ClientBuiltLocally
        /\ ClientBuiltLocally'
        /\ call'.clusterName = call.clusterName)
          => /\ ret'.client.user \in MaxTallyUsers(kubeconfig, call.clusterName)
             /\ Cardinality(MaxTallyUsers(kubeconfig, call.clusterName)) = 1
                   => ret'.client = ret.client]_vars

\* The contexts of "A" use u1 and then u2, once each, and the client got u2.
C27_Witness ==
    /\ TiedCall
    /\ call.clusterName = "A"
    /\ Len(kubeconfig.Contexts) = 2
    /\ kubeconfig.Contexts[1] = [Cluster |-> "A", AuthInfo |-> "u1"]
    /\ kubeconfig.Contexts[2] = [Cluster |-> "A", AuthInfo |-> "u2"]
    /\ ret.client.user = "u2"

(***************************************************************************)
(* The namespace of the list call (checked under SpecPods)                 *)
(***************************************************************************)
ListCallMade == response # Idle /\ apiCalls # <<>>

\* C25: GetPods called with the namespace "all" lists the pods with an empty
\* namespace, which the API reads as no restriction, and gives any other
\* namespace to the API as it is; the pods listed are those of the namespace
\* that the API was given.
C25_AllMeansNoNamespace ==
    ListCallMade =>
        /\ request.namespace = "all" => apiCalls[1].namespace = ""
        /\ request.namespace # "all" => apiCalls[1].namespace = request.namespace
        /\ \A i \in DOMAIN listed :
              apiCalls[1].namespace = "" \/ listed[i].Namespace = apiCalls[1].namespace
        /\ (request.namespace = "all" /\ response.err = "none" /\ request.labelSelector = <<>>)
              => Len(listed) = Len(ClusterPods)

\* The namespace "all" with no selector listed the pods of both namespaces.
C25_Witness ==
    /\ ListCallMade
    /\ request.namespace = "all"
    /\ apiCalls[1].namespace = ""
    /\ \E i, j \in DOMAIN listed :
          listed[i].Namespace = "default" /\ listed[j].Namespace = "other"

(***************************************************************************)
(* The route of the clusters (checked under SpecServe)                     *)
(***************************************************************************)
\* C30: in in-cluster mode GET /api/clusters always answers 200 with
\* inCluster=true and an empty list, which it could not do had it called
\* GetClusters (that fails in this mode); in local mode it answers 200 with
\* inCluster=false and one entry per cluster of the kubeconfig, or 500 with
\* the error when GetClusters fails because the kubeconfig cannot be loaded.
C30_ClustersRouteTellsModeFromFailure ==
    \A i \in DOMAIN inflight :
        (Done(i) /\ OnRoute(i, "clusters")) =>
            LET out == inflight[i].out
            IN  IF inCluster
                THEN out = Answer(200, "clusters", [inCluster |-> TRUE, clusters |-> <<>>])
                ELSE IF LoadFromFile(kubeconfigPath) = NoFile
                THEN out = Answer(500, "error", "ConfigUnavailable")
                ELSE /\ out.status = 200
                     /\ out.kind = "clusters"
                     /\ out.data.inCluster = FALSE
                     /\ {out.data.clusters[k].Name : k \in DOMAIN out.data.clusters}
                           = kubeconfig.Clusters

\* The clusters were asked for in a cluster and the answer was the empty list.
C30_Witness ==
    \E i \in DOMAIN inflight :
        /\ Done(i)
        /\ OnRoute(i, "clusters")
        /\ inCluster
        /\ inflight[i].out.status = 200
        /\ inflight[i].out.data.clusters = <<>>

(***************************************************************************)
(* The image tag, the age and the ready ratio (checked under SpecStatus)   *)
(***************************************************************************)
Latest == <<"l", "a", "t", "e", "s", "t">>

FirstImage == pod.Containers[1].Image

\* The positions of the image after its last colon (none without a colon)
AfterLastColon ==
    {i \in DOMAIN FirstImage :
        /\ \E k \in DOMAIN FirstImage : FirstImage[k] = ":" /\ k < i
        /\ \A k \in DOMAIN FirstImage : FirstImage[k] = ":" => k < i}

\* tag is the text at the positions a..b of the image
TagIsAt(tag, a, b) == tag = [i \in 1..(b - a + 1) |-> FirstImage[a + i - 1]]

\* C23: for a pod that declares a container, the image tag of the PodRecord is
\* "latest" when the image of the first declared container has no colon, when
\* a slash follows its last colon, and when only blanks (or nothing) follow
\* its last colon; otherwise it is the text after the last colon without the
\* blanks around it. nginx:1.25 gives 1.25; myregistry.io:5000/app, app and
\* app: give latest.
C23_TagIsTextAfterLastColon ==
    (PodInfoMade /\ pod.Containers # <<>>) =>
        LET tag == podInfo.ImageTag
        IN  /\ IF \A k \in DOMAIN FirstImage : FirstImage[k] # ":" THEN tag = Latest
               ELSE IF \E i \in AfterLastColon : FirstImage[i] = "/" THEN tag = Latest
               ELSE IF \A i \in AfterLastColon : FirstImage[i] = " " THEN tag = Latest
               ELSE \E a, b \in AfterLastColon :
                       /\ a <= b
                       /\ FirstImage[a] # " "
                       /\ FirstImage[b] # " "
                       /\ \A i \in AfterLastColon : (i < a \/ i > b) => FirstImage[i] = " "
                       /\ TagIsAt(tag, a, b)
            /\ FirstImage = <<"n", "g", "i", "n", "x", ":", "1", ".", "2", "5">>
                  => tag = <<"1", ".", "2", "5">>
            /\ FirstImage \in {<<"a", "p", "p">>, <<"a", "p", "p", ":">>} => tag = Latest
            /\ (Len(FirstImage) = 22 /\ FirstImage[14] = ":" /\ FirstImage[19] = "/")
                  => tag = Latest

\* The image r:5000/app:v2 has a colon in its registry and one before its
\* tag, and the tag is v2.
C23_Witness ==
    /\ PodInfoMade
    /\ pod.Containers # <<>>
    /\ Len(FirstImage) = 13
    /\ FirstImage[2] = ":"
    /\ FirstImage[11] = ":"
    /\ podInfo.ImageTag = <<"v", "2">>

\* The size in milliseconds of the unit of an age text
UnitSize(unit) ==
    IF unit = "s" THEN 1000
    ELSE IF unit = "m" THEN 60000
    ELSE IF unit = "h" THEN 3600000
    ELSE 86400000

\* C24: the age of the PodRecord is one whole number followed by one unit: s
\* below a minute, m below an hour, h below a day, d from a day on; the number
\* is the age in that unit with its fraction dropped. 45 seconds gives "45s",
\* 90 seconds "1m", 25 hours "1d".
C24_AgeIsOneTruncatedUnit ==
    PodInfoMade =>
        LET d == pod.Age
            text == podInfo.Age
            unit == text[Len(text)]
        IN  /\ unit = (IF d < 60000 THEN "s" ELSE IF d < 3600000 THEN "m"
                       ELSE IF d < 86400000 THEN "h" ELSE "d")
            /\ \E n \in {k + (d \div UnitSize(unit)) : k \in {0 - 1, 0, 1}} :
                  /\ text = Itoa(n) \o <<unit>>
                  /\ d >= 0 => (n * UnitSize(unit) <= d /\ d < (n + 1) * UnitSize(unit))
                  /\ d < 0 => (n <= 0 /\ d <= n * UnitSize(unit)
                                      /\ (n - 1) * UnitSize(unit) < d)
            /\ d = 45000 => text = <<"4", "5", "s">>
            /\ d = 90000 => text = <<"1", "m">>
            /\ d = 90000000 => text = <<"1", "d">>

\* An age of 45.9 seconds is shown as 45s.
C24_Witness ==
    /\ PodInfoMade
    /\ pod.Age = 45900
    /\ podInfo.Age = <<"4", "5", "s">>

\* C29 as stated: in every PodRecord the ready count is at least 0 and at
\* most the number of declared containers, the denominator of the ratio.
C29_ReadyAtMostTotal ==
    PodInfoMade =>
        /\ 0 <= podInfo.Ready.ready
        /\ podInfo.Ready.ready <= podInfo.Ready.total

\* C29 amended: the ready count is at least 0 and at most the number of
\* container statuses of the pod, the denominator is the number of declared
\* containers, and the ready count is at most the denominator whenever the
\* pod has no more container statuses than declared containers.
C29_ReadyAtMostStatuses ==
    PodInfoMade =>
        /\ 0 <= podInfo.Ready.ready
        /\ podInfo.Ready.ready <= Len(pod.ContainerStatuses)
        /\ podInfo.Ready.total = Len(pod.Containers)
        /\ Len(pod.ContainerStatuses) <= Len(pod.Containers)
              => podInfo.Ready.ready <= podInfo.Ready.total

\* One of two declared containers has a status so far and is ready: 1/2.
C29_Witness ==
    /\ PodInfoMade
    /\ Len(pod.Containers) = 2
    /\ Len(pod.ContainerStatuses) = 1
    /\ podInfo.Ready = [ready |-> 1, total |-> 2]

(***************************************************************************)
(* Requests that name no cluster (checked under SpecServe)                 *)
(***************************************************************************)
\* Request i is a list or a delete request that names no cluster, in local mode
NamesNoCluster(i) ==
    /\ ~inCluster
    /\ inflight[i].req.route # "clusters"
    /\ inflight[i].req.cluster = ""

NoCurrentContext(config) ==
    config.CurrentContext = 0 \/ ~ContextExists(config, config.CurrentContext)

\* C26: in local mode, with a kubeconfig that loads, a list or delete request
\* that names no cluster gets a client only for the cluster of the current
\* context; when the current context is unset or names no context of the
\* kubeconfig the request gets no client, makes no API call and is answered
\* with status 500 and an error.
C26_NoClusterMeansCurrentCluster ==
    \A i \in DOMAIN inflight :
        (NamesNoCluster(i) /\ kubeconfig # NoFile) =>
            /\ inflight[i].client # NoClient
                  => /\ CurrentClusterOf(kubeconfig) # ""
                     /\ inflight[i].client.cluster = CurrentClusterOf(kubeconfig)
            /\ NoCurrentContext(kubeconfig)
                  => /\ inflight[i].client = NoClient
                     /\ inflight[i].pc # "inflight"
                     /\ inflight[i].calls = <<>>
                     /\ Done(i) => (inflight[i].out.status = 500 /\ inflight[i].out.kind = "error")

\* The current context names a context that does not exist, and the deletion
\* that named no cluster was answered with an error without an API call,
\* although the kubeconfig has the cluster "A".
C26_Witness ==
    \E i \in DOMAIN inflight :
        /\ NamesNoCluster(i)
        /\ kubeconfig # NoFile
        /\ kubeconfig.CurrentContext = 2
        /\ "A" \in kubeconfig.Clusters
        /\ OnRoute(i, "delete")
        /\ Done(i)
        /\ inflight[i].calls = <<>>
        /\ inflight[i].out.status = 500

(***************************************************************************)
(* The service for its whole life (checked under SpecLife)                 *)
(***************************************************************************)
\* The client of request i fits the file content S: the cluster is that of
\* the current context of S, and its entry and its credential are those of S
ClientFitsContent(i, S) ==
    /\ S # NoFile
    /\ inflight[i].client.cluster = CurrentClusterOf(S)
    /\ inflight[i].client.cluster \in S.Clusters
    /\ inflight[i].client.user \in MaxTallyUsers(S, inflight[i].client.cluster) \cap S.AuthInfos

\* C28 as stated: in local mode the client of a request that names no
\* cluster is built from one single content of the kubeconfig file: the
\* current context that chose the cluster, the cluster entry and the
\* credential are all those of one content that the request read.
C28_ClientFromOneFileState ==
    \A i \in DOMAIN inflight :
        (NamesNoCluster(i) /\ inflight[i].client # NoClient)
            => \E k \in DOMAIN inflight[i].loaded : ClientFitsContent(i, inflight[i].loaded[k])

\* C28 amended: the request reads the file twice; the cluster of its client
\* is the cluster of the current context of the content at the first read
\* (in GetCurrentCluster), and the cluster entry and the credential are those
\* of the content at the second read (in CreateClientForCluster).
C28_EachCallFromItsFileState ==
    \A i \in DOMAIN inflight :
        (NamesNoCluster(i) /\ inflight[i].client # NoClient) =>
            LET loaded == inflight[i].loaded
                client == inflight[i].client
            IN  /\ Len(loaded) = 2
                /\ loaded[1] # NoFile
                /\ loaded[2] # NoFile
                /\ client.cluster = CurrentClusterOf(loaded[1])
                /\ client.cluster \in loaded[2].Clusters
                /\ client.user \in MaxTallyUsers(loaded[2], client.cluster) \cap loaded[2].AuthInfos

\* The file was rewritten between the two reads of the request: the client
\* is for the cluster "A" that was current at the first read, with the
\* credential u2 that only the content at the second read gives to "A".
C28_Witness ==
    \E i \in DOMAIN inflight :
        /\ NamesNoCluster(i)
        /\ inflight[i].loaded = <<ServeConfig, MovedConfig>>
        /\ inflight[i].client = [cluster |-> "A", user |-> "u2"]

\* C21: no step of the service changes the mode or the kubeconfig path that
\* NewKubeConfigService decided: not the resolver's operations, not the
\* handlers of the routes, and not a change of the kubeconfig file.
C21_ModeAndPathNeverChange ==
    [][inCluster' = inCluster /\ kubeconfigPath' = kubeconfigPath]_vars

\* In local mode the resolver was called, the file was rewritten and a
\* request was served.
C21_Witness ==
    /\ ~inCluster
    /\ kubeconfigPath = "kubeconfig"
    /\ call.op = "CreateClientForCluster"
    /\ earlier # NoEarlier
    /\ \E i \in DOMAIN inflight : Done(i) /\ inflight[i].loaded # <<>>

====
